---------------------------- MODULE Spec2Model ----------------------------
(***************************************************************************)
(* A model of the concurrent core of the mini Redis server:                *)
(*   - the shared store of src/src/db.rs (Db, Shared, State, Entry), its   *)
(*     handles (Db is a clonable wrapper of an Arc), and the background    *)
(*     task that purges expired keys;                                      *)
(*   - the listener, the connection handlers and the graceful shutdown of  *)
(*     src/src/server.rs.                                                  *)
(* Spec / LiveSpec run the store with its clients and its reaper,          *)
(* ServerSpec runs the listener and the handlers.                          *)
(***************************************************************************)
EXTENDS Integers, Sequences, FiniteSets, TLC

(***************************************************************************)
(* Bounds of the model.                                                    *)
(***************************************************************************)
\* The clock runs from 0 to MaxTime; no set computes a later deadline.
MaxTime == 1
\* Number of Db::set calls in one behaviour (caps next_id).
MaxSets == 2

\* Permits of the connection semaphore (250 in server.rs:57).
MAX_CONNECTIONS == 2
\* Handler values that exist at one time, those being torn down included;
\* the listener accepts only while one of these slots is free.
MaxHandlers == 3
\* Request frames the clients send in one behaviour.
MaxFrames == 2
\* Request frames the clients of the publish/subscribe runs send.
MaxPubSubFrames == 3
\* Bits of an integer (64 in the source), scaled down.
IntBits == 4

Keys == {"k1", "k2"}
\* Payloads: Db never looks into the Bytes it stores, so the n-th set of a
\* behaviour carries the token n and no two sets carry the same data.
Vals == 1..MaxSets
\* Slots for the Db handles that exist at one time (Db::new's and a clone); a
\* released slot is taken again by a later clone.
Handles == {1, 2}
\* Slots for the Handler values; a slot is taken again once its Handler is gone.
Conns == 1..MaxHandlers

(***************************************************************************)
(* Option<T>: None is the empty sequence, Some(x) the one-element one.     *)
(***************************************************************************)
None == << >>
Some(x) == << x >>
IsSome(o) == o # None
Unwrap(o) == o[1]

\* Option<Duration> arguments of Db::set.
Expires == {None} \cup {Some(d) : d \in 0..MaxTime}

(***************************************************************************)
(* HashMap / BTreeMap as functions on a finite domain.                     *)
(***************************************************************************)
EmptyMap == [x \in {} |-> None]
MapInsert(m, k, v) == [x \in (DOMAIN m) \cup {k} |-> IF x = k THEN v ELSE m[x]]
MapRemove(m, k) == [x \in (DOMAIN m) \ {k} |-> m[x]]
MapGet(m, k) == IF k \in DOMAIN m THEN Some(m[k]) ELSE None

VARIABLES
    \* State (db.rs:22-33), guarded by Shared.state
    entries,        \* HashMap<String, Entry>
    expirations,    \* BTreeMap<(Instant, u64), String>
    next_id,        \* u64
    shutdown,       \* bool
    \* Shared.background_task (db.rs:18): the permit a tokio Notify stores
    background_task,
    \* Arc<Shared> strong count
    strong,
    \* position of every Db handle's owner
    hpc,
    \* the background task purge_expired_tasks: position and sleep deadline
    rpc,
    rwhen,
    \* Instant::now()
    now,
    \* number of Db::set calls so far
    sets,
    \* per key: the value and deadline of the latest set, whether it cleared
    \* the row of the entry it replaced (db.rs:100-105), and whether a purge
    \* has since run at MaxTime, past every deadline that was ever computed;
    \* None once the reaper has removed the key
    written

storeVars == << entries, expirations, next_id, shutdown, background_task,
                strong, hpc, rpc, rwhen, now, sets,
                written >>

VARIABLES
    \* Semaphore limit_connections (server.rs:24, 72): available permits
    limit_connections,
    \* broadcast::Sender notify_shutdown (server.rs:27): TRUE until dropped
    notify_shutdown,
    \* number of mpsc::Sender clones of shutdown_complete_tx that exist
    shutdown_complete_tx,
    \* position of every Handler and of the task that owns it
    handler,
    \* position of Listener::run and the backoff of Listener::accept
    lpc,
    backoff,
    \* the seconds Listener::accept has slept so far in its current call
    \* (server.rs:164), in the order of the sleeps
    slept,
    \* position of server::run
    mpc,
    \* number of handlers inside Handler::run when the select! of server::run
    \* completed; None before
    active_at_trigger

serverVars == << limit_connections, notify_shutdown, shutdown_complete_tx,
                 handler, lpc, backoff, slept, mpc, active_at_trigger >>

VARIABLES
    \* position of every handler inside Handler::run (server.rs:175-202) and
    \* Subscribe::apply (subscribe.rs:73-116)
    cpc,
    \* the Command being applied (server.rs:193), if any
    cmd,
    \* Shutdown.shutdown of every handler (shutdown.rs:7)
    hshutdown,
    \* the frames every handler has written to its socket
    out,
    \* number of request frames every handler has read, and their total
    nread,
    nframes,
    \* the request frame every handler has read last (connection.rs:68-90)
    request,
    \* Subscribe.channels (subscribe.rs:17) and the entries of the StreamMap
    \* `subscriptions` (subscribe.rs:82) in their order: the channel name and
    \* the stream, which is the position of its broadcast receiver
    channels,
    subscriptions,
    \* State.pub_sub (db.rs:26): for every channel that has a broadcast sender
    \* the messages sent on it, of which the sender retains the last ones
    pub_sub,
    \* the Mutex of Shared.state is poisoned (a thread panicked holding it)
    poisoned,
    \* how Handler::run ended: "none", "ok", "err" or "panic"
    result

connVars == << cpc, cmd, hshutdown, out, nread, request, nframes, channels,
               subscriptions, pub_sub, poisoned, result >>

VARIABLES
    \* Connection.buffer (connection.rs:14)
    buffer,
    \* the bytes the peer has sent that the socket has not handed over yet;
    \* the peer closes the socket after them
    wire,
    \* position of Connection::read_frame (connection.rs:68-90)
    rfpc,
    \* the results the calls of read_frame have returned so far
    returned

VARIABLES
    \* The client library (client.rs) at the other end of the first socket
    \* the server accepts: the position of the Client or Subscriber,
    clpc,
    \* Subscriber.subscribed_channels (client.rs:27)
    subscribed_channels,
    \* the `channels` of the call in progress, the number of responses its
    \* loop reads and the number it has read
    cargs,
    cnum,
    cdone,
    \* the frames the client has written, and the number of frames of the
    \* server that it has read
    cframes,
    cread,
    \* the last call that returned Ok, "none" before
    cok

clientVars == << clpc, subscribed_channels, cargs, cnum, cdone, cframes,
                 cread, cok >>

\* Both ends of a socket.
ioVars == << buffer, wire, rfpc, returned, clientVars >>

vars == << storeVars, serverVars, connVars, ioVars >>

(***************************************************************************)
(* State::next_expiration (db.rs:161-168) and the BTreeMap order.          *)
(***************************************************************************)
\* The first key of the ordered map: least (Instant, id), lexicographically.
FirstKey(exps) ==
    CHOOSE p \in DOMAIN exps :
        \A q \in DOMAIN exps :
            \/ p[1] < q[1]
            \/ p[1] = q[1] /\ p[2] <= q[2]

next_expiration(exps) ==
    IF DOMAIN exps = {} THEN None ELSE Some(FirstKey(exps)[1])

(***************************************************************************)
(* Db::set (db.rs:69-112), the part under the mutex.                       *)
(***************************************************************************)
\* db.rs:80-83: whether the new deadline is the next one to expire.
NotifyNever(exps, when) == FALSE
NotifyIfFirst(exps, when) == ~IsSome(next_expiration(exps))
SetNotify(exps, when) ==
    LET nxt == next_expiration(exps)
    IN  IF IsSome(nxt) THEN Unwrap(nxt) > when ELSE TRUE

\* db.rs:86: track the expiration.
TrackExpiration(exps, when, id, key) == MapInsert(exps, << when, id >>, key)

\* db.rs:100-105: clear the expiration of the entry that was replaced.
ClearSkip(exps, prev) == exps
ClearExpiration(exps, prev) ==
    IF IsSome(prev) /\ IsSome(Unwrap(prev).expires_at)
    THEN MapRemove(exps, << Unwrap(Unwrap(prev).expires_at), Unwrap(prev).id >>)
    ELSE exps

\* db.rs:72-73: the id of the new entry and the next one.
NextIdSame(id) == id
NextId(id) == id + 1

\* db.rs:91-98: insert the entry, whatever was there.
InsertIfAbsent(ents, key, e) == IF key \in DOMAIN ents THEN ents ELSE MapInsert(ents, key, e)
InsertEntry(ents, key, e) == MapInsert(ents, key, e)

\* db.rs:76: Instant + Duration panics when the sum is past the last second
\* an Instant can hold. Instants and Durations are numbers of milliseconds.
InstantOverflows(instant, duration) ==
    instant + duration > (2^(IntBits - 1) - 1) * 1000 + 999

\* The state after the locked part of set, the notify flag, and whether the
\* addition at db.rs:76 overflowed (the thread then panics at that line).
set(key, value, expire) ==
    LET id   == next_id
        when == IF IsSome(expire) THEN Some(now + Unwrap(expire)) ELSE None
        notify == IF IsSome(expire) THEN SetNotify(expirations, Unwrap(when)) ELSE FALSE
        exps1 == IF IsSome(expire)
                 THEN TrackExpiration(expirations, Unwrap(when), id, key)
                 ELSE expirations
        prev == MapGet(entries, key)
        ents1 == InsertEntry(entries, key,
                             [id |-> id, data |-> value, expires_at |-> when])
    IN  [entries |-> ents1,
         expirations |-> ClearExpiration(exps1, prev),
         next_id |-> NextId(id),
         notify |-> notify,
         when |-> when,
         prev |-> prev,
         overflow |-> IsSome(expire) /\ InstantOverflows(now, Unwrap(expire))]

(***************************************************************************)
(* Shared::purge_expired_keys (db.rs:130-154).                             *)
(***************************************************************************)
\* A purge that removes the expired rows and leaves their entries.
RECURSIVE PurgeRowsOnly(_, _, _)
PurgeRowsOnly(ents, exps, t) ==
    IF DOMAIN exps = {}
    THEN [entries |-> ents, expirations |-> exps, ret |-> None]
    ELSE LET p == FirstKey(exps)
         IN  IF p[1] > t
             THEN [entries |-> ents, expirations |-> exps, ret |-> Some(p[1])]
             ELSE PurgeRowsOnly(ents, MapRemove(exps, p), t)

\* A purge that takes every row for expired.
PurgeEverything(ents, exps, t) ==
    [entries |-> [k \in {x \in DOMAIN ents :
                           \A p \in DOMAIN exps : exps[p] # x} |-> ents[k]],
     expirations |-> EmptyMap,
     ret |-> None]

\* db.rs:142-153: the while loop over the first row of expirations.
RECURSIVE PurgeLoop(_, _, _)
PurgeLoop(ents, exps, t) ==
    IF DOMAIN exps = {}
    THEN [entries |-> ents, expirations |-> exps, ret |-> None]
    ELSE LET p == FirstKey(exps)
         IN  IF p[1] > t
             THEN [entries |-> ents, expirations |-> exps, ret |-> Some(p[1])]
             ELSE PurgeLoop(MapRemove(ents, exps[p]), MapRemove(exps, p), t)

PurgeIgnoringShutdown(ents, exps, sd, t) == PurgeLoop(ents, exps, t)
purge_expired_keys(ents, exps, sd, t) ==
    IF sd
    THEN [entries |-> ents, expirations |-> exps, ret |-> None]
    ELSE PurgeLoop(ents, exps, t)


(***************************************************************************)
(* Db::new (db.rs:46-62): an empty store, one handle, the background task  *)
(* spawned with its own clone of the Arc.                                  *)
(***************************************************************************)
StoreInit ==
    /\ entries = EmptyMap
    /\ expirations = EmptyMap
    /\ next_id = 0
    /\ shutdown = FALSE
    /\ background_task = FALSE
    /\ strong = 2
    /\ hpc = [h \in Handles |-> IF h = 1 THEN "live" ELSE "none"]
    /\ rpc = "check"
    /\ rwhen = None
    /\ now = 0
    /\ sets = 0
    /\ written = [k \in Keys |-> None]

(***************************************************************************)
(* Clients of the store.                                                   *)
(***************************************************************************)
\* #[derive(Clone)] on Db (db.rs:8-11): one more owner of the Arc.
Clone(h, n) ==
    /\ hpc[h] = "live"
    /\ hpc[n] = "none"
    /\ \A m \in Handles : m < n => hpc[m] # "none"
    /\ strong' = strong + 1
    /\ hpc' = [hpc EXCEPT ![n] = "live"]
    /\ UNCHANGED << serverVars, connVars, ioVars >>
    /\ UNCHANGED << entries, expirations, next_id, shutdown, background_task,
                    rpc, rwhen, now, sets, written >>

\* Db::get (db.rs:64-67).
get(key) == IF key \in DOMAIN entries THEN Some(entries[key].data) ELSE None

Get(h, key) ==
    /\ hpc[h] = "live"
    /\ UNCHANGED << serverVars, connVars, ioVars >>
    /\ UNCHANGED << entries, expirations, next_id, shutdown, background_task,
                    strong, hpc, rpc, rwhen, now, sets, written >>

\* Db::set (db.rs:69-107): everything up to drop(state).
Set(h, key, value, expire) ==
    /\ hpc[h] = "live"
    /\ sets < MaxSets
    /\ value = sets + 1
    /\ IsSome(expire) => now + Unwrap(expire) <= MaxTime
    /\ LET r == set(key, value, expire)
       IN  /\ entries' = r.entries
           /\ expirations' = r.expirations
           /\ next_id' = r.next_id
           /\ hpc' = [hpc EXCEPT ![h] = IF r.notify THEN "set_notify" ELSE "live"]
           /\ written' = [written EXCEPT ![key] =
                            Some([val |-> value, when |-> r.when,
                                  cleared |-> /\ IsSome(r.prev)
                                              /\ IsSome(Unwrap(r.prev).expires_at),
                                  outlived |-> FALSE])]
    /\ sets' = sets + 1
    /\ UNCHANGED << serverVars, connVars, ioVars >>
    /\ UNCHANGED << shutdown, background_task, strong, rpc, rwhen, now >>

\* Db::set (db.rs:109-111): notify_one after the lock is released.
SetNotifyOne(h) ==
    /\ hpc[h] = "set_notify"
    /\ background_task' = TRUE
    /\ hpc' = [hpc EXCEPT ![h] = "live"]
    /\ UNCHANGED << serverVars, connVars, ioVars >>
    /\ UNCHANGED << entries, expirations, next_id, shutdown, strong, rpc,
                    rwhen, now, sets, written >>

(***************************************************************************)
(* impl Drop for Db (db.rs:115-127), then the release of the Arc field.    *)
(***************************************************************************)
\* db.rs:119: the test on Arc::strong_count.
IsAlone(count) == count = 1
IsLast(count) == count = 2

DropCheck(h) ==
    /\ hpc[h] = "live"
    /\ hpc' = [hpc EXCEPT ![h] = IF IsLast(strong) THEN "drop_lock" ELSE "drop_release"]
    /\ UNCHANGED << serverVars, connVars, ioVars >>
    /\ UNCHANGED << entries, expirations, next_id, shutdown, background_task,
                    strong, rpc, rwhen, now, sets, written >>

\* db.rs:120-123: state.shutdown = true under the lock.
DropShutdown(h) ==
    /\ hpc[h] = "drop_lock"
    /\ shutdown' = TRUE
    /\ hpc' = [hpc EXCEPT ![h] = "drop_notify"]
    /\ UNCHANGED << serverVars, connVars, ioVars >>
    /\ UNCHANGED << entries, expirations, next_id, background_task, strong,
                    rpc, rwhen, now, sets, written >>

\* db.rs:124: notify_one.
DropNotify(h) ==
    /\ hpc[h] = "drop_notify"
    /\ background_task' = TRUE
    /\ hpc' = [hpc EXCEPT ![h] = "drop_release"]
    /\ UNCHANGED << serverVars, connVars, ioVars >>
    /\ UNCHANGED << entries, expirations, next_id, shutdown, strong, rpc,
                    rwhen, now, sets, written >>

\* After Drop::drop returns the field `shared` is dropped: strong count - 1.
DropRelease(h) ==
    /\ hpc[h] = "drop_release"
    /\ strong' = strong - 1
    /\ hpc' = [hpc EXCEPT ![h] = "none"]
    /\ UNCHANGED << serverVars, connVars, ioVars >>
    /\ UNCHANGED << entries, expirations, next_id, shutdown, background_task,
                    rpc, rwhen, now, sets, written >>

(***************************************************************************)
(* purge_expired_tasks (db.rs:171-183), the background task.               *)
(***************************************************************************)
\* db.rs:172: while !shared.is_shutdown(); on exit the task's Arc is dropped.
ReaperCheck ==
    /\ rpc = "check"
    /\ IF shutdown
       THEN /\ rpc' = "done"
            /\ strong' = strong - 1
       ELSE /\ rpc' = "purge"
            /\ strong' = strong
    /\ UNCHANGED << serverVars, connVars, ioVars >>
    /\ UNCHANGED << entries, expirations, next_id, shutdown, background_task,
                    hpc, rwhen, now, sets, written >>

\* db.rs:173: shared.purge_expired_keys(), then the branch on its result.
ReaperPurge ==
    /\ rpc = "purge"
    /\ LET r == purge_expired_keys(entries, expirations, shutdown, now)
       IN  /\ entries' = r.entries
           /\ expirations' = r.expirations
           /\ rwhen' = r.ret
           /\ rpc' = IF IsSome(r.ret) THEN "sleep" ELSE "wait"
           /\ written' = [k \in Keys |->
                            IF k \in DOMAIN entries /\ k \notin DOMAIN r.entries
                            THEN None
                            ELSE IF /\ ~shutdown
                                    /\ IsSome(written[k])
                                    /\ Unwrap(written[k]).cleared
                                    /\ now = MaxTime
                                 THEN Some([Unwrap(written[k]) EXCEPT !.outlived = TRUE])
                                 ELSE written[k]]
    /\ UNCHANGED << serverVars, connVars, ioVars >>
    /\ UNCHANGED << next_id, shutdown, background_task, strong, hpc, now,
                    sets >>

\* db.rs:176 and 180: background_task.notified() completes, taking the permit.
ReaperNotified ==
    /\ rpc \in {"sleep", "wait"}
    /\ background_task
    /\ background_task' = FALSE
    /\ rpc' = "check"
    /\ rwhen' = None
    /\ UNCHANGED << serverVars, connVars, ioVars >>
    /\ UNCHANGED << entries, expirations, next_id, shutdown, strong, hpc,
                    now, sets, written >>

\* db.rs:175: time::sleep_until(when) completes.
ReaperTimeout ==
    /\ rpc = "sleep"
    /\ now >= Unwrap(rwhen)
    /\ rpc' = "check"
    /\ rwhen' = None
    /\ UNCHANGED << serverVars, connVars, ioVars >>
    /\ UNCHANGED << entries, expirations, next_id, shutdown, background_task,
                    strong, hpc, now, sets, written >>

Reaper == ReaperCheck \/ ReaperPurge \/ ReaperNotified \/ ReaperTimeout

\* The clock of Instant::now() advances.
Tick ==
    /\ now < MaxTime
    /\ now' = now + 1
    /\ UNCHANGED << serverVars, connVars, ioVars >>
    /\ UNCHANGED << entries, expirations, next_id, shutdown, background_task,
                    strong, hpc, rpc, rwhen, sets, written >>

(***************************************************************************)
(* Frame (frame.rs:13-21). Strings and Bytes are both strings here; the    *)
(* fields a variant does not use are left at a default.                    *)
(***************************************************************************)
Simple(str) == [t |-> "Simple", s |-> str, v |-> 0, a |-> << >>]
Error(str) == [t |-> "Error", s |-> str, v |-> 0, a |-> << >>]
Integer(n) == [t |-> "Integer", s |-> "", v |-> n, a |-> << >>]
Bulk(str) == [t |-> "Bulk", s |-> str, v |-> 0, a |-> << >>]
Null == [t |-> "Null", s |-> "", v |-> 0, a |-> << >>]
Array(fs) == [t |-> "Array", s |-> "", v |-> 0, a |-> fs]

\* Widths, scaled down: u64 has IntBits bits, and an Instant counts its
\* seconds in a signed integer of IntBits bits.
U64_MAX == 2^IntBits - 1
I64_MAX == 2^(IntBits - 1) - 1

\* str::to_lowercase / str::to_uppercase on the words the clients send.
to_lowercase(str) ==
    CASE str \in {"GET", "get", "Get"} -> "get"
      [] str \in {"SET", "set", "SeT"} -> "set"
      [] str \in {"PING", "ping", "PiNg"} -> "ping"
      [] str \in {"PUBLISH", "publish"} -> "publish"
      [] str \in {"SUBSCRIBE", "subscribe"} -> "subscribe"
      [] str \in {"UNSUBSCRIBE", "unsubscribe"} -> "unsubscribe"
      [] OTHER -> str

to_uppercase(str) ==
    CASE str \in {"EX", "ex", "Ex"} -> "EX"
      [] str \in {"PX", "px"} -> "PX"
      [] str \in {"NX", "nx"} -> "NX"
      [] str \in {"XX", "xx"} -> "XX"
      [] str \in {"FOO", "foo"} -> "FOO"
      [] OTHER -> str

\* str::from_utf8 (parse.rs:51): one payload stands for bytes that are not
\* UTF-8.
from_utf8_ok(str) == str # "\\xff"

\* atoi::<u64> (parse.rs:88-89) on the numerals the clients send.
atoi(str) ==
    CASE str = "1" -> Some(1)
      [] str = "18446744073709551615" -> Some(U64_MAX)
      [] OTHER -> None

(***************************************************************************)
(* Parse (parse.rs:27-101): the iterator is the sequence of the parts that *)
(* are left. A result is Ok with a value and the parts left, or the error  *)
(* EndOfStream, or another error.                                          *)
(***************************************************************************)
POk(val, parts) == [ok |-> TRUE, eos |-> FALSE, val |-> val, parts |-> parts]
PEndOfStream == [ok |-> FALSE, eos |-> TRUE]
POther == [ok |-> FALSE, eos |-> FALSE]

\* parse.rs:28-37
Parse_new(frame) ==
    IF frame.t = "Array" THEN POk(frame.a, frame.a) ELSE POther

\* parse.rs:40-42
next(parts) ==
    IF parts = << >> THEN PEndOfStream ELSE POk(Head(parts), Tail(parts))

\* parse.rs:48-60
NextStringAny(parts) ==
    IF parts = << >> THEN PEndOfStream ELSE POk(Head(parts).s, Tail(parts))
next_string(parts) ==
    LET r == next(parts)
    IN  IF ~r.ok THEN r
        ELSE CASE r.val.t = "Simple" -> POk(r.val.s, r.parts)
               [] r.val.t = "Bulk" ->
                    IF from_utf8_ok(r.val.s) THEN POk(r.val.s, r.parts) ELSE POther
               [] OTHER -> POther

\* parse.rs:66-76
next_bytes(parts) ==
    LET r == next(parts)
    IN  IF ~r.ok THEN r
        ELSE IF r.val.t \in {"Simple", "Bulk"} THEN POk(r.val.s, r.parts)
        ELSE POther

\* parse.rs:81-92
next_int(parts) ==
    LET r == next(parts)
    IN  IF ~r.ok THEN r
        ELSE CASE r.val.t = "Integer" -> POk(r.val.v, r.parts)
               [] r.val.t \in {"Simple", "Bulk"} ->
                    IF IsSome(atoi(r.val.s))
                    THEN POk(Unwrap(atoi(r.val.s)), r.parts)
                    ELSE POther
               [] OTHER -> POther

\* parse.rs:95-101: Ok when no part is left.
FinishAlways(parts) == TRUE
finish(parts) == parts = << >>

(***************************************************************************)
(* The parsers of the commands. A result is [ok |-> FALSE] or Ok with the  *)
(* command and the parts left.                                             *)
(***************************************************************************)
CErr == [ok |-> FALSE]
COk(val, parts) == [ok |-> TRUE, cmd |-> val, parts |-> parts]

\* Duration::from_secs / Duration::from_millis (set.rs:66, 71): a Duration is
\* a number of milliseconds.
from_secs(secs) == secs * 1000
from_millis(ms) == ms

\* get.rs:30-34
Get_parse_frames(parts) ==
    LET k == next_string(parts)
    IN  IF k.ok THEN COk([name |-> "get", key |-> k.val], k.parts) ELSE CErr

\* set.rs:62-83 and again set.rs:85-106: one optional field.
SetOption(parts, opts) ==
    LET r == next_string(parts)
    IN  IF r.ok
        THEN CASE to_uppercase(r.val) = "EX" ->
                    LET i == next_int(r.parts)
                    IN  IF i.ok
                        THEN COk([opts EXCEPT !.expire = Some(from_secs(i.val))], i.parts)
                        ELSE CErr
               [] to_uppercase(r.val) = "PX" ->
                    LET i == next_int(r.parts)
                    IN  IF i.ok
                        THEN COk([opts EXCEPT !.expire = Some(from_millis(i.val))], i.parts)
                        ELSE CErr
               [] to_uppercase(r.val) = "NX" -> COk([opts EXCEPT !.nx = TRUE], r.parts)
               [] to_uppercase(r.val) = "XX" -> COk([opts EXCEPT !.xx = TRUE], r.parts)
               [] OTHER -> CErr
        ELSE IF r.eos THEN COk(opts, parts)
        ELSE CErr

\* set.rs:108-111: NX and XX can not be set at the same time.
BothNever(nx, xx) == FALSE
Both(nx, xx) == nx /\ xx

\* set.rs:50-118
Set_parse_frames(parts) ==
    LET k == next_string(parts)
    IN  IF ~k.ok THEN CErr ELSE
        LET v == next_bytes(k.parts)
        IN  IF ~v.ok THEN CErr ELSE
            LET o1 == SetOption(v.parts, [expire |-> None, nx |-> FALSE, xx |-> FALSE])
            IN  IF ~o1.ok THEN CErr ELSE
                LET o2 == SetOption(o1.parts, o1.cmd)
                IN  IF ~o2.ok THEN CErr
                    ELSE IF Both(o2.cmd.nx, o2.cmd.xx) THEN CErr
                    ELSE COk([name |-> "set", key |-> k.val, value |-> v.val,
                              options |-> o2.cmd], o2.parts)

\* publish.rs:22-29
Publish_parse_frames(parts) ==
    LET c == next_string(parts)
    IN  IF ~c.ok THEN CErr ELSE
        LET m == next_bytes(c.parts)
        IN  IF ~m.ok THEN CErr
            ELSE COk([name |-> "publish", channel |-> c.val, message |-> m.val], m.parts)

\* subscribe.rs:59-68 and 140-150: the strings up to the end of the frame.
RECURSIVE Strings(_, _)
Strings(parts, names) ==
    LET r == next_string(parts)
    IN  IF r.ok THEN Strings(r.parts, Append(names, r.val))
        ELSE IF r.eos THEN COk(names, parts)
        ELSE CErr

\* subscribe.rs:53-71
Subscribe_parse_frames(parts) ==
    LET c == next_string(parts)
    IN  IF ~c.ok THEN CErr ELSE
        LET r == Strings(c.parts, << c.val >>)
        IN  IF ~r.ok THEN CErr
            ELSE COk([name |-> "subscribe", channels |-> r.cmd], r.parts)

\* subscribe.rs:135-153
Unsubscribe_parse_frames(parts) ==
    LET r == Strings(parts, << >>)
    IN  IF ~r.ok THEN CErr
        ELSE COk([name |-> "unsubscribe", channels |-> r.cmd], r.parts)

\* mod.rs:40: the command name is matched in lower case.
NameAsSent(str) == str
CommandName(str) == to_lowercase(str)

\* mod.rs:52-54: a command whose frame has parts left is an error.
Finished(c) == IF c.ok /\ finish(c.parts) THEN c ELSE CErr

\* mod.rs:42-50: the parser of the command named; any other name gives
\* Unknown at once, whatever follows the name.
Match(command_name, parts) ==
    CASE command_name = "get" -> Finished(Get_parse_frames(parts))
      [] command_name = "set" -> Finished(Set_parse_frames(parts))
      [] command_name = "publish" -> Finished(Publish_parse_frames(parts))
      [] command_name = "subscribe" -> Finished(Subscribe_parse_frames(parts))
      [] command_name = "unsubscribe" -> Finished(Unsubscribe_parse_frames(parts))
      [] OTHER -> COk([name |-> "unknown", command_name |-> command_name], parts)

\* mod.rs:40
Named(n) == IF n.ok THEN Match(CommandName(n.val), n.parts) ELSE CErr

\* mod.rs:37
Parsed(p) == IF p.ok THEN Named(next_string(p.parts)) ELSE CErr

\* mod.rs:35-55
from_frame(frame) == Parsed(Parse_new(frame))

\* mod.rs:78-87
NameUnknown(command) == "unknown"
get_name(command) ==
    IF command.name = "unknown" THEN command.command_name ELSE command.name

(***************************************************************************)
(* server::run (server.rs:64-108): the state after the Listener is built.  *)
(***************************************************************************)
ServerInit ==
    /\ limit_connections = MAX_CONNECTIONS
    /\ notify_shutdown = TRUE
    /\ shutdown_complete_tx = 1
    /\ handler = [i \in Conns |-> "none"]
    /\ lpc = "acquire"
    /\ backoff = 1
    /\ slept = << >>
    /\ mpc = "select"
    /\ active_at_trigger = None

\* Handlers inside Handler::run.
Running == {i \in Conns : handler[i] = "run"}

(***************************************************************************)
(* Listener::run (server.rs:112-140) and Listener::accept                  *)
(* (server.rs:148-169). The listener is polled by the select! of           *)
(* server::run, so it moves only while that select! is pending.            *)
(***************************************************************************)
\* server.rs:120: acquire().await.unwrap().forget() keeps the permit taken.
ForgetNot(permits) == permits
Forget(permits) == permits - 1

\* server.rs:130: self.shutdown_complete_tx.clone().
CloneSenderNot(n) == n
CloneSender(n) == n + 1

\* server.rs:120, then the entry of accept (server.rs:149).
ListenerAcquire ==
    /\ mpc = "select"
    /\ lpc = "acquire"
    /\ limit_connections > 0
    /\ limit_connections' = Forget(limit_connections)
    /\ lpc' = "accept"
    /\ backoff' = 1
    /\ slept' = << >>
    /\ UNCHANGED << notify_shutdown, shutdown_complete_tx, handler, mpc,
                    active_at_trigger >>
    /\ UNCHANGED << storeVars, connVars, ioVars >>

\* server.rs:153-154 and 123-138: a socket is accepted, the Handler is built
\* (a new Connection, a Shutdown that has seen nothing) and its task spawned;
\* the listener goes back to the semaphore.
AcceptOk(i) ==
    /\ mpc = "select"
    /\ lpc = "accept"
    /\ handler[i] = "none"
    /\ \A j \in Conns : j < i => handler[j] # "none"
    /\ handler' = [handler EXCEPT ![i] = "run"]
    /\ shutdown_complete_tx' = CloneSender(shutdown_complete_tx)
    /\ lpc' = "acquire"
    /\ backoff' = 1
    /\ slept' = << >>
    /\ cpc' = [cpc EXCEPT ![i] = "select"]
    /\ cmd' = [cmd EXCEPT ![i] = None]
    /\ hshutdown' = [hshutdown EXCEPT ![i] = FALSE]
    /\ out' = [out EXCEPT ![i] = << >>]
    /\ nread' = [nread EXCEPT ![i] = 0]
    /\ request' = [request EXCEPT ![i] = None]
    /\ channels' = [channels EXCEPT ![i] = << >>]
    /\ subscriptions' = [subscriptions EXCEPT ![i] = << >>]
    /\ result' = [result EXCEPT ![i] = "none"]
    /\ UNCHANGED << limit_connections, notify_shutdown, mpc, active_at_trigger >>
    /\ UNCHANGED << ioVars, storeVars, nframes, pub_sub, poisoned >>

\* server.rs:156: failed too many times.
GivesUpEarly(b) == b > 32
GivesUp(b) == b > 64

\* server.rs:155-160: accept fails; past the last backoff the error is
\* returned, Listener::run returns it (server.rs:123) and the select! of
\* server::run completes (server.rs:80-84); otherwise the listener sleeps.
AcceptErr ==
    /\ mpc = "select"
    /\ lpc = "accept"
    /\ IF GivesUp(backoff)
       THEN /\ lpc' = "failed"
            /\ backoff' = 1
            /\ slept' = slept
            /\ mpc' = "drop_notify"
            /\ active_at_trigger' = Some(Cardinality(Running))
       ELSE /\ lpc' = "sleep"
            /\ slept' = Append(slept, backoff)
            /\ UNCHANGED << backoff, mpc, active_at_trigger >>
    /\ UNCHANGED << limit_connections, notify_shutdown, shutdown_complete_tx,
                    handler >>
    /\ UNCHANGED << storeVars, connVars, ioVars >>

\* server.rs:167: backoff *= 2.
Quadrupled(b) == b * 4
Doubled(b) == b * 2

\* server.rs:164-167: the sleep elapses and the backoff doubles.
BackoffElapsed ==
    /\ mpc = "select"
    /\ lpc = "sleep"
    /\ backoff' = Doubled(backoff)
    /\ lpc' = "accept"
    /\ UNCHANGED << limit_connections, notify_shutdown, shutdown_complete_tx,
                    handler, slept, mpc, active_at_trigger >>
    /\ UNCHANGED << storeVars, connVars, ioVars >>

(***************************************************************************)
(* server::run (server.rs:79-108).                                         *)
(***************************************************************************)
\* server.rs:85-88: the shutdown future completes; the select! drops the
\* future of Listener::run wherever it is waiting.
Trigger ==
    /\ mpc = "select"
    /\ mpc' = "drop_notify"
    /\ lpc' = "stopped"
    /\ backoff' = 1
    /\ slept' = << >>
    /\ active_at_trigger' = Some(Cardinality(Running))
    /\ UNCHANGED << limit_connections, notify_shutdown, shutdown_complete_tx,
                    handler >>
    /\ UNCHANGED << storeVars, connVars, ioVars >>

\* server.rs:100: drop(notify_shutdown).
RunDropNotify ==
    /\ mpc = "drop_notify"
    /\ notify_shutdown' = FALSE
    /\ mpc' = "drop_tx"
    /\ UNCHANGED << limit_connections, shutdown_complete_tx, handler, lpc,
                    backoff, slept, active_at_trigger >>
    /\ UNCHANGED << storeVars, connVars, ioVars >>

\* server.rs:102: drop(shutdown_complete_tx).
RunDropTx ==
    /\ mpc = "drop_tx"
    /\ shutdown_complete_tx' = shutdown_complete_tx - 1
    /\ mpc' = "recv"
    /\ UNCHANGED << limit_connections, notify_shutdown, handler, lpc, backoff,
                    slept,
                    active_at_trigger >>
    /\ UNCHANGED << storeVars, connVars, ioVars >>

\* server.rs:105: nothing is ever sent, so recv() completes (with None) when
\* no Sender is left.
RecvCompletes(senders) == senders = 0

\* server.rs:105-107: the wait resolves and run returns.
RunRecv ==
    /\ mpc = "recv"
    /\ RecvCompletes(shutdown_complete_tx)
    /\ mpc' = "returned"
    /\ UNCHANGED << limit_connections, notify_shutdown, shutdown_complete_tx,
                    handler, lpc, backoff, slept, active_at_trigger >>
    /\ UNCHANGED << storeVars, connVars, ioVars >>

(***************************************************************************)
(* Handler::run (server.rs:175-202), impl Drop for Handler                 *)
(* (server.rs:205-210) and the drop of the Handler's fields.               *)
(***************************************************************************)
\* server.rs:179, 189, 193, 198: the peer closed the socket, or reading,
\* parsing or applying failed: Handler::run returns.
HandlerExit(i) ==
    /\ handler[i] = "run"
    /\ handler' = [handler EXCEPT ![i] = "returned"]
    /\ UNCHANGED << limit_connections, notify_shutdown, shutdown_complete_tx,
                    lpc, backoff, slept, mpc, active_at_trigger >>
    /\ UNCHANGED << storeVars, connVars, ioVars >>

\* server.rs:180-182 with shutdown.rs:24-34: the broadcast receiver completes
\* once notify_shutdown is dropped, and Handler::run returns.
HandlerShutdown(i) ==
    /\ handler[i] = "run"
    /\ ~notify_shutdown
    /\ handler' = [handler EXCEPT ![i] = "returned"]
    /\ UNCHANGED << limit_connections, notify_shutdown, shutdown_complete_tx,
                    lpc, backoff, slept, mpc, active_at_trigger >>
    /\ UNCHANGED << storeVars, connVars, ioVars >>

\* server.rs:205-210: Drop::drop gives a permit back.
HandlerDrop(i) ==
    /\ handler[i] = "returned"
    /\ limit_connections' = limit_connections + 1
    /\ handler' = [handler EXCEPT ![i] = "fields"]
    /\ UNCHANGED << notify_shutdown, shutdown_complete_tx, lpc, backoff, slept, mpc,
                    active_at_trigger >>
    /\ cpc' = [cpc EXCEPT ![i] = "select"]
    /\ hshutdown' = [hshutdown EXCEPT ![i] = FALSE]
    /\ out' = [out EXCEPT ![i] = << >>]
    /\ nread' = [nread EXCEPT ![i] = 0]
    /\ request' = [request EXCEPT ![i] = None]
    /\ channels' = [channels EXCEPT ![i] = << >>]
    /\ result' = [result EXCEPT ![i] = "none"]
    /\ UNCHANGED << ioVars, storeVars, cmd, nframes, subscriptions, pub_sub,
                    poisoned >>

\* server.rs:37-54: after Drop::drop the fields are dropped in the order of
\* their declaration, _shutdown_complete last.
HandlerFields(i) ==
    /\ handler[i] = "fields"
    /\ shutdown_complete_tx' = shutdown_complete_tx - 1
    /\ handler' = [handler EXCEPT ![i] = "none"]
    /\ UNCHANGED << limit_connections, notify_shutdown, lpc, backoff, slept, mpc,
                    active_at_trigger >>
    /\ UNCHANGED << storeVars, connVars, ioVars >>

(***************************************************************************)
(* The request frames the clients send.                                    *)
(***************************************************************************)
\* An array of bulk strings, as Client's commands build it (get.rs:54-59).
RECURSIVE Bulks(_)
Bulks(words) ==
    IF words = << >> THEN << >> ELSE << Bulk(Head(words)) >> \o Bulks(Tail(words))
Req(words) == Array(Bulks(words))

Requests ==
    { Req(<< "GET", "k1" >>),
      Req(<< "get", "k1", "k2" >>),
      Req(<< "GET" >>),
      Array(<< Bulk("GET"), Integer(1) >>),
      Array(<< Bulk("GET"), Bulk("\\xff") >>),
      Simple("GET"),
      Array(<< >>),
      Req(<< "SeT", "k1", "v1" >>),
      Req(<< "SET", "k1", "v2", "NX" >>),
      Req(<< "SET", "k1", "v3", "xx" >>),
      Req(<< "SET", "k1", "v4", "NX", "XX" >>),
      Req(<< "SET", "k1", "v5", "EX", "1", "NX" >>),
      Req(<< "SET", "k1", "v6", "EX", "1", "NX", "XX" >>),
      Req(<< "SET", "k1", "v7", "FOO" >>),
      Req(<< "SET", "k1", "v8", "EX" >>),
      Req(<< "SET", "k1", "v9", "PX", "18446744073709551615" >>),
      Req(<< "SET", "k1", "v10", "EX", "18446744073709551615" >>),
      Req(<< "SET", "k1" >>),
      Req(<< "PiNg" >>),
      Req(<< "PING", "k1" >>),
      Req(<< "UNSUBSCRIBE" >>),
      Req(<< "UNSUBSCRIBE", "c1" >>),
      Req(<< "SUBSCRIBE" >>),
      Req(<< "SUBSCRIBE", "c1", "c2" >>),
      Req(<< "subscribe", "c2", "c2" >>) }

(***************************************************************************)
(* Handler state after Listener::run has built it (server.rs:125-131).     *)
(***************************************************************************)
ConnInit ==
    /\ cpc = [i \in Conns |-> "select"]
    /\ cmd = [i \in Conns |-> None]
    /\ hshutdown = [i \in Conns |-> FALSE]
    /\ out = [i \in Conns |-> << >>]
    /\ nread = [i \in Conns |-> 0]
    /\ request = [i \in Conns |-> None]
    /\ nframes = 0
    /\ channels = [i \in Conns |-> << >>]
    /\ subscriptions = [i \in Conns |-> << >>]
    /\ pub_sub = EmptyMap
    /\ poisoned = FALSE
    /\ result = [i \in Conns |-> "none"]

\* The variables of the server that a step inside a handler leaves alone.
serverRest == << limit_connections, notify_shutdown, shutdown_complete_tx,
                 lpc, backoff, slept, mpc, active_at_trigger >>

\* Handler::run returns (server.rs:179-201) or its task panics: either way the
\* task ends and the Handler is dropped next.
Return(i, res) ==
    /\ handler' = [handler EXCEPT ![i] = "returned"]
    /\ result' = [result EXCEPT ![i] = res]
    /\ cpc' = [cpc EXCEPT ![i] = "done"]
    /\ cmd' = [cmd EXCEPT ![i] = None]

\* The handler goes on, at position pos with the command c.
Goto(i, pos, c) ==
    /\ handler' = handler
    /\ result' = result
    /\ cpc' = [cpc EXCEPT ![i] = pos]
    /\ cmd' = [cmd EXCEPT ![i] = c]

\* server.rs:177: after a command is applied, the test of the while loop.
LoopAlways(i, flag) == Goto(i, "select", None)
Loop(i, flag) ==
    IF flag THEN Return(i, "ok") ELSE Goto(i, "select", None)

\* Connection::write_frame (connection.rs:93-114): the frame goes out.
WriteNothing(i, frame) == out' = out
write_frame(i, frame) == out' = [out EXCEPT ![i] = Append(out[i], frame)]

(***************************************************************************)
(* Handler::run (server.rs:175-202) and Command::apply (mod.rs:58-75).     *)
(***************************************************************************)
\* server.rs:193: the command is applied next; an error is returned.
Converted(i, r) ==
    IF r.ok THEN Goto(i, "apply", Some(r.cmd)) ELSE Return(i, "err")

\* server.rs:179 and 187-193: read_frame returns a frame, which is converted
\* into a command; a frame that is no command ends the handler with an error.
ReadFrame(i, frame) ==
    /\ handler[i] = "run"
    /\ cpc[i] = "select"
    /\ nread' = [nread EXCEPT ![i] = nread[i] + 1]
    /\ request' = [request EXCEPT ![i] = Some(frame)]
    /\ nframes' = nframes + 1
    /\ Converted(i, from_frame(frame))
    /\ UNCHANGED << ioVars, storeVars, serverRest, hshutdown, out, channels,
                    subscriptions, pub_sub, poisoned >>

\* server.rs:179 and 189: read_frame fails (res = "err"), or returns None
\* because the peer closed the socket (res = "ok").
ReadClosed(i, res) ==
    /\ handler[i] = "run"
    /\ cpc[i] = "select"
    /\ Return(i, res)
    /\ UNCHANGED << ioVars, storeVars, serverRest, hshutdown, out, nread, request, nframes,
                    channels, subscriptions, pub_sub, poisoned >>

\* shutdown.rs:31: nothing is ever sent to the receiver, so notify.recv()
\* completes (with an error, which is ignored) once the Sender is dropped.
NotifyRecvNever(sender) == FALSE
NotifyRecv(sender) == ~sender

\* server.rs:180-182 with shutdown.rs:24-34: notify_shutdown is dropped, the
\* receiver completes, the flag is set and run returns.
RecvShutdown(i) ==
    /\ handler[i] = "run"
    /\ cpc[i] = "select"
    /\ NotifyRecv(notify_shutdown)
    /\ hshutdown' = [hshutdown EXCEPT ![i] = TRUE]
    /\ Return(i, "ok")
    /\ UNCHANGED << ioVars, storeVars, serverRest, out, nread, request, nframes, channels,
                    subscriptions, pub_sub, poisoned >>

\* The command at hand.
Cmd(i) == Unwrap(cmd[i])
Applying(i, name) ==
    /\ handler[i] = "run"
    /\ cpc[i] = "apply"
    /\ Cmd(i).name = name

\* The frame is consumed by from_frame (server.rs:193); it is kept here for
\* as long as its command is not dispatched, and when Handler::run returns.
Dispatched(i) ==
    IF handler'[i] = "run" THEN [request EXCEPT ![i] = None] ELSE request

\* get.rs:38-52: Db::get (its lock().unwrap() panics on a poisoned mutex),
\* then the response.
ApplyGet(i) ==
    /\ Applying(i, "get")
    /\ IF poisoned
       THEN Return(i, "panic") /\ out' = out
       ELSE /\ write_frame(i, IF IsSome(get(Cmd(i).key))
                              THEN Bulk(Unwrap(get(Cmd(i).key)))
                              ELSE Null)
            /\ Loop(i, hshutdown[i])
    /\ UNCHANGED << ioVars, storeVars, serverRest, hshutdown, nread, nframes, channels,
                    subscriptions, pub_sub, poisoned >>
    /\ request' = Dispatched(i)

\* set.rs:123-124: the condition under which SET does not set.
Refuses(options, present) ==
    \/ options.nx /\ present
    \/ options.xx /\ ~present

\* set.rs:123-130: the test of NX and XX, which calls Db::get when either is
\* given, and the Null response when the test refuses.
ApplySet(i) ==
    /\ Applying(i, "set")
    /\ IF (Cmd(i).options.nx \/ Cmd(i).options.xx) /\ poisoned
       THEN Return(i, "panic") /\ out' = out
       ELSE IF Refuses(Cmd(i).options, IsSome(get(Cmd(i).key)))
       THEN write_frame(i, Null) /\ Loop(i, hshutdown[i])
       ELSE Goto(i, "set", cmd[i]) /\ out' = out
    /\ UNCHANGED << ioVars, storeVars, serverRest, hshutdown, nread, nframes, channels,
                    subscriptions, pub_sub, poisoned >>
    /\ request' = Dispatched(i)

\* set.rs:131-135: Db::set, with its notify_one, then the response OK. The
\* overflow at db.rs:76 panics after next_id was raised and leaves the mutex
\* poisoned.
ApplySetDb(i) ==
    /\ handler[i] = "run"
    /\ cpc[i] = "set"
    /\ LET r == set(Cmd(i).key, Cmd(i).value, Cmd(i).options.expire)
       IN  IF poisoned
           THEN /\ Return(i, "panic")
                /\ UNCHANGED << out, entries, expirations, next_id,
                                background_task, poisoned >>
           ELSE IF r.overflow
           THEN /\ Return(i, "panic")
                /\ next_id' = r.next_id
                /\ poisoned' = TRUE
                /\ UNCHANGED << out, entries, expirations, background_task >>
           ELSE /\ entries' = r.entries
                /\ expirations' = r.expirations
                /\ next_id' = r.next_id
                /\ background_task' = (background_task \/ r.notify)
                /\ write_frame(i, Simple("OK"))
                /\ Loop(i, hshutdown[i])
                /\ poisoned' = poisoned
    /\ UNCHANGED << shutdown, strong, hpc, rpc, rwhen, now, sets, written >>
    /\ UNCHANGED << ioVars, serverRest, hshutdown, nread, request, nframes,
                    channels, subscriptions, pub_sub >>

\* Unknown::apply: the error frame that names the command.
UnknownResponse(name) == Error("ERR unknown command '" \o name \o "'")

ApplyUnknown(i) ==
    /\ Applying(i, "unknown")
    /\ write_frame(i, UnknownResponse(Cmd(i).command_name))
    /\ Loop(i, hshutdown[i])
    /\ UNCHANGED << ioVars, storeVars, serverRest, hshutdown, nread, nframes, channels,
                    subscriptions, pub_sub, poisoned >>
    /\ request' = Dispatched(i)

\* mod.rs:71-73: Unsubscribe cannot be applied; run returns the error
\* (server.rs:197-198).
ApplyUnsubscribeAnswered(i) ==
    /\ Applying(i, "unsubscribe")
    /\ write_frame(i, Error("ERR unsupported"))
    /\ Loop(i, hshutdown[i])
    /\ UNCHANGED << ioVars, storeVars, serverRest, hshutdown, nread, request, nframes,
                    channels, subscriptions, pub_sub, poisoned >>
ApplyUnsubscribe(i) ==
    /\ Applying(i, "unsubscribe")
    /\ Return(i, "err")
    /\ UNCHANGED << ioVars, storeVars, serverRest, hshutdown, out, nread, request, nframes,
                    channels, subscriptions, pub_sub, poisoned >>

(***************************************************************************)
(* Subscribe::apply (subscribe.rs:73-116) and its helpers.                 *)
(***************************************************************************)
\* StreamMap keeps its entries in a Vec: remove swaps the last entry into the
\* place of the removed one, insert removes the key and pushes the entry.
swap_remove(entries_, n) ==
    [j \in 1..(Len(entries_) - 1) |->
        IF j = n THEN entries_[Len(entries_)] ELSE entries_[j]]

StreamMap_remove(map, key) ==
    IF \E n \in 1..Len(map) : map[n][1] = key
    THEN swap_remove(map, CHOOSE n \in 1..Len(map) :
                              /\ map[n][1] = key
                              /\ \A m \in 1..(n - 1) : map[m][1] # key)
    ELSE map

PushEntry(map, key, stream) == Append(map, << key, stream >>)
StreamMap_insert(map, key, stream) ==
    Append(StreamMap_remove(map, key), << key, stream >>)

\* StreamMap::keys
NoKeys(map) == << >>
keys(map) == [n \in 1..Len(map) |-> map[n][1]]

\* subscribe.rs:195-209
make_subscribe_frame(channel_name, num_subs) ==
    Array(<< Bulk("subscribe"), Bulk(channel_name), Integer(num_subs) >>)

make_unsubscribe_frame(channel_name, num_subs) ==
    Array(<< Bulk("unsubscribe"), Bulk(channel_name), Integer(num_subs) >>)

\* Db::subscribe: the channel gets a broadcast sender if it has none.
subscribe(channel_name) ==
    IF channel_name \in DOMAIN pub_sub THEN pub_sub
    ELSE MapInsert(pub_sub, channel_name, << >>)

\* The receiver Db::subscribe returns is a fresh one: it sees the messages
\* sent from now on.
Receiver(sent) == Len(sent)

\* subscribe.rs:82: the StreamMap is new; the channels of the command are to
\* be subscribed to.
ApplySubscribe(i) ==
    /\ Applying(i, "subscribe")
    /\ channels' = [channels EXCEPT ![i] = Cmd(i).channels]
    /\ subscriptions' = [subscriptions EXCEPT ![i] = << >>]
    /\ Goto(i, "sub_drain", None)
    /\ UNCHANGED << ioVars, storeVars, serverRest, hshutdown, out, nread, nframes,
                    pub_sub, poisoned >>
    /\ request' = Dispatched(i)

\* subscribe.rs:189: the count the acknowledgement carries.
CountBefore(before, after) == Len(before)
AckCount(before, after) == Len(after)

\* subscribe.rs:85-87 and 167-193: the next pending channel is subscribed to
\* and acknowledged; the select! follows once no channel is pending.
SubscribeToChannel(i) ==
    /\ handler[i] = "run"
    /\ cpc[i] = "sub_drain"
    /\ channels[i] # << >>
    /\ pub_sub' = subscribe(Head(channels[i]))
    /\ subscriptions' = [subscriptions EXCEPT ![i] =
           StreamMap_insert(subscriptions[i], Head(channels[i]),
                            Receiver(pub_sub'[Head(channels[i])]))]
    /\ write_frame(i, make_subscribe_frame(Head(channels[i]),
                          AckCount(subscriptions[i], subscriptions'[i])))
    /\ channels' = [channels EXCEPT ![i] = Tail(channels[i])]
    /\ Goto(i, IF Tail(channels[i]) = << >> THEN "sub_select" ELSE "sub_drain",
            None)
    /\ UNCHANGED << ioVars, storeVars, serverRest, hshutdown, nread, request, nframes,
                    poisoned >>

\* subscribe.rs:230-245: every channel named is removed and acknowledged
\* with the number of subscriptions left.
RECURSIVE UnsubscribeEach(_, _, _)
UnsubscribeEach(map, names, acks) ==
    IF names = << >>
    THEN [subscriptions |-> map, acks |-> acks]
    ELSE LET left == StreamMap_remove(map, Head(names))
         IN  UnsubscribeEach(left, Tail(names),
                 Append(acks, make_unsubscribe_frame(Head(names), Len(left))))

\* handle_command (subscribe.rs:219-253) on the result r of from_frame.
handle_command(i, r) ==
    IF ~r.ok
    THEN /\ Return(i, "err")
         /\ subscriptions' = [subscriptions EXCEPT ![i] = << >>]
         /\ UNCHANGED << out, channels >>
    ELSE IF r.cmd.name = "subscribe"
    THEN /\ channels' = [channels EXCEPT ![i] = channels[i] \o r.cmd.channels]
         /\ Goto(i, "sub_drain", None)
         /\ UNCHANGED << out, subscriptions >>
    ELSE IF r.cmd.name = "unsubscribe"
    THEN /\ subscriptions' = [subscriptions EXCEPT ![i] =
                UnsubscribeEach(subscriptions[i],
                    IF r.cmd.channels = << >> THEN keys(subscriptions[i])
                                              ELSE r.cmd.channels,
                    << >>).subscriptions]
         /\ out' = [out EXCEPT ![i] = out[i] \o
                UnsubscribeEach(subscriptions[i],
                    IF r.cmd.channels = << >> THEN keys(subscriptions[i])
                                              ELSE r.cmd.channels,
                    << >>).acks]
         /\ Goto(i, "sub_select", None)
         /\ channels' = channels
    ELSE /\ write_frame(i, UnknownResponse(get_name(r.cmd)))
         /\ Goto(i, "sub_select", None)
         /\ UNCHANGED << channels, subscriptions >>

\* subscribe.rs:99-112: read_frame returns a frame inside the subscribe loop.
SubReadFrame(i, frame) ==
    /\ handler[i] = "run"
    /\ cpc[i] = "sub_select"
    /\ nread' = [nread EXCEPT ![i] = nread[i] + 1]
    /\ nframes' = nframes + 1
    /\ handle_command(i, from_frame(frame))
    /\ request' = [request EXCEPT ![i] = Some(frame)]
    /\ UNCHANGED << ioVars, storeVars, serverRest, hshutdown, pub_sub, poisoned >>

\* subscribe.rs:100-104: read_frame fails and the error goes up to
\* Handler::run (res = "err"), or the peer closed the socket (res = "ok"):
\* Subscribe::apply returns Ok, and the next read_frame of Handler::run finds
\* the socket closed as well (server.rs:189).
SubReadClosed(i, res) ==
    /\ handler[i] = "run"
    /\ cpc[i] = "sub_select"
    /\ Return(i, res)
    /\ subscriptions' = [subscriptions EXCEPT ![i] = << >>]
    /\ UNCHANGED << ioVars, storeVars, serverRest, hshutdown, out, nread, request, nframes,
                    channels, pub_sub, poisoned >>

\* subscribe.rs:95-97 with shutdown.rs:24-34, then server.rs:177.
SubRecvShutdown(i) ==
    /\ handler[i] = "run"
    /\ cpc[i] = "sub_select"
    /\ NotifyRecv(notify_shutdown)
    /\ hshutdown' = [hshutdown EXCEPT ![i] = TRUE]
    /\ Loop(i, TRUE)
    /\ subscriptions' = [subscriptions EXCEPT ![i] = << >>]
    /\ UNCHANGED << ioVars, storeVars, serverRest, out, nread, request, nframes, channels,
                    pub_sub, poisoned >>

(***************************************************************************)
(* Publish::apply (publish.rs:31-41), Db::publish and the messages of the  *)
(* subscribe loop (subscribe.rs:91-93, 175-184). tokio's broadcast channel *)
(* keeps the last Capacity messages sent; a receiver is the number of      *)
(* messages of the channel that are behind it.                             *)
(***************************************************************************)
\* The capacity of a channel's broadcast sender (1024 is recommended).
Capacity == 1

\* The names of the channels the clients use.
Channels == {"c1", "c2"}

\* The receivers of a channel that exist: one per entry of a StreamMap.
receiver_count(channel) ==
    Cardinality({e \in Conns \X (1..Cardinality(Channels)) :
                    /\ e[2] <= Len(subscriptions[e[1]])
                    /\ subscriptions[e[1]][e[2]][1] = channel})

\* Db::publish: 0 when the channel has no sender or the sender no receiver;
\* otherwise the message is sent and the number of receivers returned.
publish(channel, message) ==
    IF channel \in DOMAIN pub_sub /\ receiver_count(channel) > 0
    THEN [n |-> receiver_count(channel),
          pub_sub |-> [pub_sub EXCEPT ![channel] = Append(@, message)]]
    ELSE [n |-> 0, pub_sub |-> pub_sub]

\* publish.rs:32: db.publish is an ordinary call, not awaited: it returns
\* whatever the receivers of the channel have left unread.
WaitsForReceivers(channel) ==
    \A i \in Conns : \A n \in 1..Len(subscriptions[i]) :
        subscriptions[i][n][1] = channel =>
            Len(pub_sub[channel]) - subscriptions[i][n][2] < Capacity
PublishReturns(channel) == TRUE

\* publish.rs:35: the response is the number of subscribers.
ResponseOne(num_subscribers) == Integer(1)
Response(num_subscribers) == Integer(num_subscribers)

\* publish.rs:31-41. The frame read last stays on record.
ApplyPublish(i) ==
    /\ Applying(i, "publish")
    /\ PublishReturns(Cmd(i).channel)
    /\ pub_sub' = publish(Cmd(i).channel, Cmd(i).message).pub_sub
    /\ write_frame(i, Response(publish(Cmd(i).channel, Cmd(i).message).n))
    /\ Loop(i, hshutdown[i])
    /\ UNCHANGED << ioVars, storeVars, serverRest, hshutdown, nread, request,
                    nframes, channels, subscriptions, poisoned >>

\* broadcast::Receiver::recv on a receiver at position next_ of a channel
\* whose sender, if it still exists, has sent the messages of tx: a receiver
\* that is more than Capacity messages behind is told so and moved to the
\* oldest message retained.
SamePosition(next_) == next_
NextPosition(next_) == next_ + 1

recv(next_, tx) ==
    IF tx = None THEN [k |-> "Closed"]
    ELSE IF next_ < Len(Unwrap(tx)) - Capacity
    THEN [k |-> "Lagged", next |-> Len(Unwrap(tx)) - Capacity]
    ELSE IF next_ < Len(Unwrap(tx))
    THEN [k |-> "Ok", msg |-> Unwrap(tx)[next_ + 1], next |-> NextPosition(next_)]
    ELSE [k |-> "Empty"]

\* subscribe.rs:175-184: the stream yields the message received, goes on
\* after Lagged and ends on any other error.
EndsWhenLagged(r, tx) ==
    CASE r.k = "Ok" -> [k |-> "Yield", msg |-> r.msg, next |-> r.next]
      [] r.k = "Empty" -> [k |-> "Pending"]
      [] OTHER -> [k |-> "End"]
Messages(r, tx) ==
    CASE r.k = "Ok" -> [k |-> "Yield", msg |-> r.msg, next |-> r.next]
      [] r.k = "Lagged" ->
            [k |-> "Yield", msg |-> recv(r.next, tx).msg,
             next |-> recv(r.next, tx).next]
      [] r.k = "Empty" -> [k |-> "Pending"]
      [] OTHER -> [k |-> "End"]

\* subscribe.rs:211-217
SwappedMessageFrame(channel_name, msg) ==
    Array(<< Bulk("message"), Bulk(msg), Bulk(channel_name) >>)
make_message_frame(channel_name, msg) ==
    Array(<< Bulk("message"), Bulk(channel_name), Bulk(msg) >>)

\* subscribe.rs:91-93: StreamMap::next polls the stream of an entry; what it
\* yields is written as a message frame, and a stream that has ended is
\* removed from the map. p is the result of the poll.
Polled(i, n, p) ==
    /\ p.k # "Pending"
    /\ IF p.k = "Yield"
       THEN /\ subscriptions' = [subscriptions EXCEPT ![i][n][2] = p.next]
            /\ write_frame(i, make_message_frame(subscriptions[i][n][1], p.msg))
       ELSE /\ subscriptions' = [subscriptions EXCEPT ![i] =
                                     swap_remove(subscriptions[i], n)]
            /\ out' = out

SubMessage(i, n) ==
    /\ handler[i] = "run"
    /\ cpc[i] = "sub_select"
    /\ n \in 1..Len(subscriptions[i])
    /\ Polled(i, n, Messages(recv(subscriptions[i][n][2],
                                  MapGet(pub_sub, subscriptions[i][n][1])),
                             MapGet(pub_sub, subscriptions[i][n][1])))
    /\ Goto(i, "sub_select", None)
    /\ UNCHANGED << ioVars, storeVars, serverRest, hshutdown, nread, request,
                    nframes, channels, pub_sub, poisoned >>

(***************************************************************************)
(* The frame codec on bytes (frame.rs:63-206, 222-266) and the encoder of  *)
(* Connection::write_frame (connection.rs:93-167). A byte is a string of   *)
(* one character, a buffer a sequence of bytes, and a Cursor a buffer with *)
(* the number of bytes already consumed. The payload of a frame that is    *)
(* encoded or decoded is a sequence of bytes.                              *)
(***************************************************************************)
CR == "\r"
LF == "\n"
Digits == << "0", "1", "2", "3", "4", "5", "6", "7", "8", "9" >>
IsDigit(b) == \E d \in 1..10 : Digits[d] = b
DigitValue(b) == (CHOOSE d \in 1..10 : Digits[d] = b) - 1

\* The results of the cursor functions: Ok with the new position and a
\* value, Error::Incomplete, or Error::Other.
Ok(pos, val) == [k |-> "Ok", pos |-> pos, val |-> val]
Incomplete == [k |-> "Incomplete"]
Other == [k |-> "Other"]

\* frame.rs:222-236: peek_u8 and eat_u8 need a byte that is left.
has_remaining(src, pos) == pos < Len(src)

\* frame.rs:238-252: the first "\r\n" at or after the position, searched up
\* to the end of the whole buffer; the line is what precedes it.
LineEnds(src, pos) ==
    {j \in (pos + 1)..(Len(src) - 1) : src[j] = CR /\ src[j + 1] = LF}

LineAt(src, pos, j) == Ok(j + 1, SubSeq(src, pos + 1, j - 1))

Min(S) == CHOOSE x \in S : \A y \in S : x <= y

eat_line(src, pos) ==
    IF LineEnds(src, pos) = {} THEN Incomplete
    ELSE LineAt(src, pos, Min(LineEnds(src, pos)))

\* frame.rs:254-261
skip(src, pos, n) ==
    IF Len(src) - pos < n THEN Incomplete ELSE Ok(pos + n, << >>)

\* atoi::<u64> on a line: the digits it starts with, None when it starts
\* with no digit or the number does not fit.
RECURSIVE LeadingDigits(_, _)
LeadingDigits(line, acc) ==
    IF line = << >> \/ ~IsDigit(Head(line)) THEN acc
    ELSE LeadingDigits(Tail(line), acc * 10 + DigitValue(Head(line)))

atoi_u64(line) ==
    IF line = << >> \/ ~IsDigit(Head(line)) THEN None
    ELSE IF LeadingDigits(line, 0) > U64_MAX THEN None
    ELSE Some(LeadingDigits(line, 0))

\* frame.rs:263-269
Decimal(r) ==
    IF r.k # "Ok" THEN r
    ELSE IF IsSome(atoi_u64(r.val)) THEN Ok(r.pos, Unwrap(atoi_u64(r.val)))
    ELSE Other

eat_decimal(src, pos) == Decimal(eat_line(src, pos))

\* frame.rs:97-100 and 170-180: the bytes of a bulk after its length line.
SkipBulk(src, r) ==
    IF r.k # "Ok" THEN r ELSE skip(src, r.pos, r.val + 2)

\* Frame::check (frame.rs:64-123): the position after the first frame.
RECURSIVE Frame_check(_, _)
RECURSIVE CheckEntries(_, _)
CheckEntries(src, r) ==
    IF r.k # "Ok" THEN r
    ELSE IF r.val = 0 THEN Ok(r.pos, << >>)
    ELSE CheckEntries(src, [Frame_check(src, r.pos) EXCEPT !.val = r.val - 1])

Frame_check(src, pos) ==
    IF ~has_remaining(src, pos) THEN Incomplete
    ELSE CASE src[pos + 1] \in {"+", "-"} -> eat_line(src, pos + 1)
           [] src[pos + 1] = ":" -> eat_decimal(src, pos + 1)
           [] src[pos + 1] = "$" ->
                IF ~has_remaining(src, pos + 1) THEN Incomplete
                ELSE IF src[pos + 2] = "-" THEN skip(src, pos + 1, 4)
                ELSE SkipBulk(src, eat_decimal(src, pos + 1))
           [] src[pos + 1] = "*" -> CheckEntries(src, eat_decimal(src, pos + 1))
           [] OTHER -> Other

\* frame.rs:160-167: "$-" must go on as "-1\r\n".
ParseNull(r) ==
    IF r.k # "Ok" THEN r
    ELSE IF r.val = << "-", "1" >> THEN Ok(r.pos, Null)
    ELSE Other

\* frame.rs:170-182
ParseBulk(src, r) ==
    IF r.k # "Ok" THEN r
    ELSE IF Len(src) - r.pos < r.val + 2 THEN Incomplete
    ELSE Ok(r.pos + r.val + 2, Bulk(SubSeq(src, r.pos + 1, r.pos + r.val)))

\* String::from_utf8 (frame.rs:135, 144): one byte stands for those that
\* occur in no UTF-8 text.
Utf8(line) == \A n \in 1..Len(line) : line[n] # "\\xff"

\* frame.rs:134-137, 143-146
ParseLine(r, t) ==
    IF r.k # "Ok" THEN r
    ELSE IF ~Utf8(r.val) THEN Other
    ELSE Ok(r.pos, [t |-> t, s |-> r.val, v |-> 0, a |-> << >>])

ParseInteger(r) == IF r.k # "Ok" THEN r ELSE Ok(r.pos, Integer(r.val))

\* Frame::parse (frame.rs:128-206): the first frame and the position after
\* it. r carries the number of entries that are left, out those parsed.
RECURSIVE Frame_parse(_, _)
RECURSIVE ParseEntries(_, _, _)
ParseEntries(src, r, entries_) ==
    IF r.k # "Ok" THEN r
    ELSE IF r.val = 0 THEN Ok(r.pos, Array(entries_))
    ELSE ParseEntries(src,
             IF Frame_parse(src, r.pos).k = "Ok"
             THEN Ok(Frame_parse(src, r.pos).pos, r.val - 1)
             ELSE Frame_parse(src, r.pos),
             IF Frame_parse(src, r.pos).k = "Ok"
             THEN Append(entries_, Frame_parse(src, r.pos).val)
             ELSE entries_)

Frame_parse(src, pos) ==
    IF ~has_remaining(src, pos) THEN Incomplete
    ELSE CASE src[pos + 1] = "+" -> ParseLine(eat_line(src, pos + 1), "Simple")
           [] src[pos + 1] = "-" -> ParseLine(eat_line(src, pos + 1), "Error")
           [] src[pos + 1] = ":" -> ParseInteger(eat_decimal(src, pos + 1))
           [] src[pos + 1] = "$" ->
                IF ~has_remaining(src, pos + 1) THEN Incomplete
                ELSE IF src[pos + 2] = "-" THEN ParseNull(eat_line(src, pos + 1))
                ELSE ParseBulk(src, eat_decimal(src, pos + 1))
           [] src[pos + 1] = "*" ->
                ParseEntries(src, eat_decimal(src, pos + 1), << >>)
           [] OTHER -> Other

\* connection.rs:117-130: the value in decimal, then "\r\n".
write_decimal(val) ==
    (IF val >= 10 THEN << Digits[(val \div 10) + 1] >> ELSE << >>)
        \o << Digits[(val % 10) + 1], CR, LF >>

\* connection.rs:133-167
write_value(frame) ==
    CASE frame.t = "Simple" -> << "+" >> \o frame.s \o << CR, LF >>
      [] frame.t = "Error" -> << "-" >> \o frame.s \o << CR, LF >>
      [] frame.t = "Integer" -> << ":" >> \o write_decimal(frame.v)
      [] frame.t = "Bulk" ->
            << "$" >> \o write_decimal(Len(frame.s)) \o frame.s \o << CR, LF >>
      [] frame.t = "Null" -> << "$", "-", "1", CR, LF >>

RECURSIVE WriteEntries(_)
WriteEntries(val) ==
    IF val = << >> THEN << >>
    ELSE write_value(Head(val)) \o WriteEntries(Tail(val))

\* connection.rs:93-114: the bytes write_frame puts on the socket.
Encode(frame) ==
    IF frame.t = "Array"
    THEN << "*" >> \o write_decimal(Len(frame.a)) \o WriteEntries(frame.a)
    ELSE write_value(frame)

(***************************************************************************)
(* Connection::read_frame (connection.rs:33-90) on one connection whose    *)
(* peer sends a stream of bytes and closes the socket.                     *)
(***************************************************************************)
\* Frames a peer pipelines in one stream.
MaxPipelined == 2

\* The frames the peers send.
WireFrames ==
    { Simple(<< "O", "K" >>),
      Error(<< >>),
      Integer(12),
      Null,
      Bulk(<< CR, LF >>),
      Array(<< Bulk(<< "a" >>), Integer(0) >>) }

RECURSIVE Pipelines(_)
Pipelines(n) ==
    IF n = 0 THEN {<< >>}
    ELSE Pipelines(n - 1) \cup
         {s \o Encode(f) : s \in Pipelines(n - 1), f \in WireFrames}

\* What the peers send before they close: frames one after the other, the
\* last of them cut anywhere.
Streams ==
    UNION {{SubSeq(s, 1, n) : n \in 0..Len(s)} : s \in Pipelines(MaxPipelined)}

IoInit ==
    /\ rfpc = "none"
    /\ buffer = << >>
    /\ wire = << >>
    /\ returned = << >>

\* client.rs:36-42: connect returns a Client that has sent nothing.
ClientInit ==
    /\ clpc = "new"
    /\ subscribed_channels = << >>
    /\ cargs = << >>
    /\ cnum = 0
    /\ cdone = 0
    /\ cframes = << >>
    /\ cread = 0
    /\ cok = "none"

\* connection.rs:19-24: the connection is new, its buffer empty.
Connection_new(stream) ==
    /\ rfpc = "none"
    /\ rfpc' = "parse"
    /\ buffer' = << >>
    /\ wire' = stream
    /\ returned' = returned
    /\ UNCHANGED << storeVars, serverVars, connVars, clientVars >>

\* connection.rs:51: self.buffer.advance(len).
AdvanceAll(buf, len) == << >>
advance(buf, len) == SubSeq(buf, len + 1, Len(buf))

\* read_frame returns: its result is recorded; after a frame the caller
\* calls it again, after None or an error it does not.
ReturnFrame(res, again) ==
    /\ returned' = Append(returned, res)
    /\ rfpc' = IF again THEN "parse" ELSE "done"

\* parse_frame (connection.rs:33-60) on the results of check and parse, at
\* the top of the loop of read_frame (connection.rs:72-74).
parse_frame(c, f) ==
    IF c.k = "Ok"
    THEN IF f.k = "Ok"
         THEN /\ buffer' = advance(buffer, c.pos)
              /\ ReturnFrame([k |-> "Frame", frame |-> f.val], TRUE)
         ELSE /\ buffer' = buffer
              /\ ReturnFrame([k |-> "Err", msg |-> "invalid frame"], FALSE)
    ELSE IF c.k = "Incomplete"
    THEN /\ buffer' = buffer
         /\ returned' = returned
         /\ rfpc' = "read"
    ELSE /\ buffer' = buffer
         /\ ReturnFrame([k |-> "Err", msg |-> "invalid frame"], FALSE)

ParseFrame ==
    /\ rfpc = "parse"
    /\ parse_frame(Frame_check(buffer, 0), Frame_parse(buffer, 0))
    /\ wire' = wire
    /\ UNCHANGED << storeVars, serverVars, connVars, clientVars >>

\* connection.rs:80: read_buf appends the n bytes the socket has.
ReadBuf(n) ==
    /\ rfpc = "read"
    /\ n \in 1..Len(wire)
    /\ buffer' = buffer \o SubSeq(wire, 1, n)
    /\ wire' = SubSeq(wire, n + 1, Len(wire))
    /\ rfpc' = "parse"
    /\ returned' = returned
    /\ UNCHANGED << storeVars, serverVars, connVars, clientVars >>

\* connection.rs:80-88: read_buf returns 0, the end of the stream.
ReadEof ==
    /\ rfpc = "read"
    /\ wire = << >>
    /\ IF buffer = << >>
       THEN ReturnFrame([k |-> "None"], FALSE)
       ELSE ReturnFrame([k |-> "Err", msg |-> "connection reset by peer"], FALSE)
    /\ UNCHANGED << buffer, wire >>
    /\ UNCHANGED << storeVars, serverVars, connVars, clientVars >>

Init == StoreInit /\ ServerInit /\ ConnInit /\ IoInit /\ ClientInit

Next ==
    \/ \E h \in Handles, n \in Handles : Clone(h, n)
    \/ \E h \in Handles, k \in Keys : Get(h, k)
    \/ \E h \in Handles, k \in Keys, v \in Vals, e \in Expires : Set(h, k, v, e)
    \/ \E h \in Handles : SetNotifyOne(h)
    \/ \E h \in Handles : DropCheck(h)
    \/ \E h \in Handles : DropShutdown(h)
    \/ \E h \in Handles : DropNotify(h)
    \/ \E h \in Handles : DropRelease(h)
    \/ ReaperCheck
    \/ ReaperPurge
    \/ ReaperNotified
    \/ ReaperTimeout
    \/ Tick

Spec == Init /\ [][Next]_vars

ServerNext ==
    \/ ListenerAcquire
    \/ \E i \in Conns : AcceptOk(i)
    \/ AcceptErr
    \/ BackoffElapsed
    \/ Trigger
    \/ RunDropNotify
    \/ RunDropTx
    \/ RunRecv
    \/ \E i \in Conns : HandlerExit(i)
    \/ \E i \in Conns : HandlerShutdown(i)
    \/ \E i \in Conns : HandlerDrop(i)
    \/ \E i \in Conns : HandlerFields(i)

ServerSpec == Init /\ [][ServerNext]_vars

\* The server with the handlers' steps in place of HandlerExit and
\* HandlerShutdown; accept does not fail. The clients send MaxFrames frames.
ConnNext ==
    \/ ListenerAcquire
    \/ \E i \in Conns : AcceptOk(i)
    \/ Trigger
    \/ RunDropNotify
    \/ RunDropTx
    \/ RunRecv
    \/ \E i \in Conns : HandlerDrop(i)
    \/ \E i \in Conns : HandlerFields(i)
    \/ \E i \in Conns, f \in Requests : nframes < MaxFrames /\ ReadFrame(i, f)
    \/ \E i \in Conns, res \in {"ok", "err"} : ReadClosed(i, res)
    \/ \E i \in Conns : RecvShutdown(i)
    \/ \E i \in Conns : ApplyGet(i)
    \/ \E i \in Conns : ApplySet(i)
    \/ \E i \in Conns : ApplySetDb(i)
    \/ \E i \in Conns : ApplyUnknown(i)
    \/ \E i \in Conns : ApplyUnsubscribe(i)
    \/ \E i \in Conns : ApplySubscribe(i)
    \/ \E i \in Conns : SubscribeToChannel(i)
    \/ \E i \in Conns, f \in Requests : nframes < MaxFrames /\ SubReadFrame(i, f)
    \/ \E i \in Conns, res \in {"ok", "err"} : SubReadClosed(i, res)
    \/ \E i \in Conns : SubRecvShutdown(i)

ConnSpec == Init /\ [][ConnNext]_vars

\* The steps of handler i that need no input from its peer, and the drop of
\* its Handler when its task is over.
Internal(i) ==
    \/ RecvShutdown(i)
    \/ ApplyGet(i)
    \/ ApplySet(i)
    \/ ApplySetDb(i)
    \/ ApplyUnknown(i)
    \/ ApplyUnsubscribe(i)
    \/ ApplySubscribe(i)
    \/ SubscribeToChannel(i)
    \/ SubRecvShutdown(i)
    \/ HandlerDrop(i)
    \/ HandlerFields(i)

\* server.rs:100-107: the steps of server::run after its select!.
RunAfterSelect == RunDropNotify \/ RunDropTx \/ RunRecv

\* The requests of the clients while the server is shut down.
ShutdownRequests ==
    { Req(<< "GET", "k1" >>),
      Req(<< "SET", "k1", "v5", "EX", "1", "NX" >>),
      Req(<< "PiNg" >>),
      Req(<< "UNSUBSCRIBE" >>),
      Req(<< "SUBSCRIBE", "c1", "c2" >>) }

ShutdownNext ==
    \/ ListenerAcquire
    \/ \E i \in Conns : AcceptOk(i)
    \/ Trigger
    \/ RunAfterSelect
    \/ \E i \in Conns : Internal(i)
    \/ \E i \in Conns, f \in ShutdownRequests :
          nframes < MaxFrames /\ ReadFrame(i, f)
    \/ \E i \in Conns, res \in {"ok", "err"} : ReadClosed(i, res)
    \/ \E i \in Conns, f \in ShutdownRequests :
          nframes < MaxFrames /\ SubReadFrame(i, f)
    \/ \E i \in Conns, res \in {"ok", "err"} : SubReadClosed(i, res)

\* The tokio runtime polls every task that can go on: server::run, and each
\* handler, whose select! completes once notify_shutdown is dropped and whose
\* socket writes complete.
ShutdownSpec ==
    /\ Init
    /\ [][ShutdownNext]_vars
    /\ WF_vars(RunAfterSelect)
    /\ \A i \in Conns : WF_vars(Internal(i))

\* The requests of the clients that publish and subscribe.
PubSubRequests ==
    { Req(<< "SUBSCRIBE", "c1" >>),
      Req(<< "SUBSCRIBE", "c1", "c2" >>),
      Req(<< "UNSUBSCRIBE", "c1" >>),
      Req(<< "PUBLISH", "c1", "m1" >>),
      Req(<< "PUBLISH", "c1", "m2" >>),
      Req(<< "publish", "c2", "m1" >>),
      Req(<< "GET", "k1" >>) }

\* The listener, which accepts, and the handlers of clients that publish
\* and subscribe and close their sockets; the clients send MaxPubSubFrames
\* frames.
PubSubNext ==
    \/ ListenerAcquire
    \/ \E i \in Conns : AcceptOk(i)
    \/ \E i \in Conns : HandlerDrop(i)
    \/ \E i \in Conns : HandlerFields(i)
    \/ \E i \in Conns, f \in PubSubRequests :
          nframes < MaxPubSubFrames /\ ReadFrame(i, f)
    \/ \E i \in Conns : ReadClosed(i, "ok")
    \/ \E i \in Conns : ApplyGet(i)
    \/ \E i \in Conns : ApplyPublish(i)
    \/ \E i \in Conns : ApplyUnsubscribe(i)
    \/ \E i \in Conns : ApplySubscribe(i)
    \/ \E i \in Conns : SubscribeToChannel(i)
    \/ \E i \in Conns, f \in PubSubRequests :
          nframes < MaxPubSubFrames /\ SubReadFrame(i, f)
    \/ \E i \in Conns : SubReadClosed(i, "ok")
    \/ \E i \in Conns, n \in 1..Cardinality(Channels) : SubMessage(i, n)

PubSubSpec == Init /\ [][PubSubNext]_vars

\* Frames of clients that subscribe and then send commands of every kind,
\* one of them malformed.
SubscribeStateRequests ==
    { Req(<< "SUBSCRIBE", "c1" >>),
      Req(<< "UNSUBSCRIBE" >>),
      Req(<< "GET", "k1" >>),
      Req(<< "SeT", "k1", "v1" >>),
      Req(<< "PUBLISH", "c1", "m1" >>),
      Req(<< "GET" >>) }

\* The server with such clients, which may also close or reset their
\* sockets, and with the shutdown; the clients send MaxPubSubFrames frames.
SubscribeStateNext ==
    \/ ListenerAcquire
    \/ \E i \in Conns : AcceptOk(i)
    \/ Trigger
    \/ RunDropNotify
    \/ RunDropTx
    \/ RunRecv
    \/ \E i \in Conns : HandlerDrop(i)
    \/ \E i \in Conns : HandlerFields(i)
    \/ \E i \in Conns, f \in SubscribeStateRequests :
          nframes < MaxPubSubFrames /\ ReadFrame(i, f)
    \/ \E i \in Conns, res \in {"ok", "err"} : ReadClosed(i, res)
    \/ \E i \in Conns : RecvShutdown(i)
    \/ \E i \in Conns : ApplyGet(i)
    \/ \E i \in Conns : ApplySet(i)
    \/ \E i \in Conns : ApplySetDb(i)
    \/ \E i \in Conns : ApplyPublish(i)
    \/ \E i \in Conns : ApplyUnsubscribe(i)
    \/ \E i \in Conns : ApplySubscribe(i)
    \/ \E i \in Conns : SubscribeToChannel(i)
    \/ \E i \in Conns, f \in SubscribeStateRequests :
          nframes < MaxPubSubFrames /\ SubReadFrame(i, f)
    \/ \E i \in Conns, res \in {"ok", "err"} : SubReadClosed(i, res)
    \/ \E i \in Conns : SubRecvShutdown(i)
    \/ \E i \in Conns, n \in 1..Cardinality(Channels) : SubMessage(i, n)

SubscribeStateSpec == Init /\ [][SubscribeStateNext]_vars

\* The task of a handler is polled when it can go on: a receiver with a
\* message makes the subscriptions.next() branch of the select! ready, and
\* a pending channel is subscribed to without waiting for the peer.
PubSubLiveSpec ==
    /\ PubSubSpec
    /\ \A i \in Conns : WF_vars(SubscribeToChannel(i))
    /\ \A i \in Conns :
          WF_vars(\E n \in 1..Cardinality(Channels) : SubMessage(i, n))

(***************************************************************************)
(* Fairness: the background task is a spawned task the runtime keeps       *)
(* polling, the clock advances, and a thread inside Db::set goes on to its *)
(* notify_one.                                                             *)
(***************************************************************************)
LiveSpec ==
    /\ Spec
    /\ WF_vars(Reaper)
    /\ WF_vars(Tick)
    /\ \A h \in Handles : WF_vars(SetNotifyOne(h))

(***************************************************************************)
(* Properties of the store.                                                *)
(***************************************************************************)
RowsOf(k) == {p \in DOMAIN expirations : expirations[p] = k}
Latest(k) == Unwrap(written[k])
\* Some handle can call Db::get / Db::set.
CanGet == \E h \in Handles : hpc[h] \in {"live", "set_notify"}

\* C1: every entry with expires_at = Some(t) has exactly one row, the row
\* (t, entry.id) -> key; an entry without expiry has no row; so the entries
\* with an expiry are as many as the rows of expirations.
C1_ExpirationRows ==
    /\ \A k \in DOMAIN entries :
         IF IsSome(entries[k].expires_at)
         THEN RowsOf(k) = {<< Unwrap(entries[k].expires_at), entries[k].id >>}
         ELSE RowsOf(k) = {}
    /\ Cardinality({k \in DOMAIN entries : IsSome(entries[k].expires_at)})
         = Cardinality(DOMAIN expirations)

\* A set replaced an entry that had a deadline by one with a deadline, and
\* the reaper has purged and sleeps until the deadline of the new entry.
C1_Witness ==
    \E k \in DOMAIN entries :
        /\ IsSome(written[k])
        /\ Latest(k).cleared
        /\ IsSome(entries[k].expires_at)
        /\ rpc = "sleep"
        /\ rwhen = entries[k].expires_at

\* C2: every row of expirations names a key that is present in entries.
C2_NoDanglingRows ==
    \A p \in DOMAIN expirations : expirations[p] \in DOMAIN entries

\* Two sets were made, one entry is left with its row, and the reaper sleeps
\* until its deadline.
C2_Witness ==
    \E k \in Keys :
        /\ DOMAIN entries = {k}
        /\ entries[k].id >= 1
        /\ RowsOf(k) # {}
        /\ rpc = "sleep"

\* C3: when no Db handle is left, shutdown has been set (and the background
\* task notified, so that it stops).
C3_LastDropShutsDown ==
    (\A h \in Handles : hpc[h] = "none") => shutdown

\* C4: once shutdown is true it stays true, entries and expirations are not
\* written any more, and the background task goes from its wait to the loop
\* test and from the loop test to its end.
C4_NoWritesAfterShutdown ==
    [][shutdown =>
         /\ shutdown'
         /\ entries' = entries
         /\ expirations' = expirations
         /\ (rpc \in {"sleep", "wait"} /\ rpc' # rpc => rpc' = "check")
         /\ (rpc = "check" /\ rpc' # rpc => rpc' = "done")
         /\ (rpc = "done" => rpc' = "done")]_vars

\* The store is shut down, the background task has ended, and a row whose
\* deadline has passed is still there.
C4_Witness ==
    /\ shutdown
    /\ rpc = "done"
    /\ \E p \in DOMAIN expirations : p[1] <= now

\* C5: the entry a set(k, v, d) stored (the i-th set's entry, i its id) does
\* not stay visible to get(k) for ever: eventually get(k) no longer returns
\* it (the reaper removed k, or a later set replaced it, or no handle is left
\* to call get).
Expiring(i) ==
    \E k \in DOMAIN entries : entries[k].id = i /\ IsSome(entries[k].expires_at)
GetSees(i) == CanGet /\ \E k \in DOMAIN entries : entries[k].id = i
C5_ExpiredKeyRemoved ==
    \A i \in 0..(MaxSets - 1) : Expiring(i) ~> ~GetSees(i)

\* Sets were made, a handle is alive, and the reaper has emptied the store.
C5_Witness ==
    /\ sets >= 1
    /\ CanGet
    /\ ~shutdown
    /\ DOMAIN entries = {}
    /\ rpc = "wait"

\* C6: an entry without expiry stays, with its value, in every step that is
\* not a set of its key (a set gives the key an entry with a new id).
C6_NoExpiryNeverPurged ==
    [][\A k \in Keys :
         (k \in DOMAIN entries /\ entries[k].expires_at = None) =>
             /\ k \in DOMAIN entries'
             /\ \/ entries'[k] = entries[k]
                \/ entries'[k].id # entries[k].id]_vars

\* set(k, v1, d) then set(k, v2, None): k holds v2 after a purge that ran
\* past the deadline of the replaced entry.
C6_Witness ==
    \E k \in DOMAIN entries :
        /\ IsSome(written[k])
        /\ Latest(k).cleared
        /\ Latest(k).when = None
        /\ Latest(k).outlived
        /\ get(k) = Some(Latest(k).val)

\* C7: get(k) is the value of the latest set of k, or nothing when k was
\* never set or the reaper removed it since; and a step of Db::get leaves
\* entries, expirations and next_id as they are.
GetIsLatest ==
    \A k \in Keys :
        get(k) = IF IsSome(written[k]) THEN Some(Latest(k).val) ELSE None
C7_GetReturnsLastSet ==
    [][/\ GetIsLatest'
       /\ (\E h \in Handles, k \in Keys : Get(h, k)) =>
              UNCHANGED << entries, expirations, next_id >>]_vars

\* A set replaced the entry of a key, deadline and value (no two sets carry
\* the same data), and get returns the new value.
C7_Witness ==
    \E k \in DOMAIN entries :
        /\ IsSome(written[k])
        /\ Latest(k).cleared
        /\ get(k) = Some(Latest(k).val)

\* C8: every set increases next_id, next_id never decreases, no two entries
\* carry the same id and no two rows of expirations carry the same id.
UniqueIds ==
    /\ \A k1, k2 \in DOMAIN entries : k1 # k2 => entries[k1].id # entries[k2].id
    /\ \A p, q \in DOMAIN expirations : p # q => p[2] # q[2]
    /\ \A k \in DOMAIN entries : entries[k].id < next_id
C8_NextIdIncreases ==
    [][/\ sets' = sets + 1 => next_id' > next_id
       /\ next_id' >= next_id
       /\ UniqueIds']_vars

\* Two entries with two rows, written by two sets.
C8_Witness ==
    /\ Cardinality(DOMAIN entries) = 2
    /\ Cardinality(DOMAIN expirations) = 2
    /\ next_id >= 2

(***************************************************************************)
(* Properties of the server.                                               *)
(***************************************************************************)
\* Handlers that are alive: built and not yet dropped.
Alive == {i \in Conns : handler[i] \in {"run", "returned"}}
\* The listener holds a permit it took for the accept it is in.
InAccept == lpc \in {"accept", "sleep"}

\* C9: at most MAX_CONNECTIONS handlers are alive; when MAX_CONNECTIONS are
\* alive no permit is left and the listener is not accepting; a handler is
\* built only by a listener that took a permit, and a permit comes back only
\* in the step that drops a Handler.
C9_AtMostMaxConnections ==
    [][/\ Cardinality(Alive') <= MAX_CONNECTIONS
       /\ Cardinality(Alive') = MAX_CONNECTIONS =>
              limit_connections' = 0 /\ ~InAccept'
       /\ Cardinality(Alive') > Cardinality(Alive) => InAccept
       /\ (~InAccept /\ InAccept') => limit_connections' = limit_connections - 1
       /\ limit_connections' > limit_connections =>
              \E i \in Conns : handler[i] = "returned" /\ handler'[i] = "fields"]_vars

\* MAX_CONNECTIONS handlers are alive after an earlier handler has given its
\* permit back, and the listener waits for a permit.
C9_Witness ==
    /\ Cardinality(Alive) = MAX_CONNECTIONS
    /\ \E i \in Conns : handler[i] = "fields"
    /\ lpc = "acquire"
    /\ limit_connections = 0
    /\ mpc = "select"

\* C10: when server::run has returned, every handler has returned and its
\* Handler, the shutdown_complete sender included, is gone.
C10_RunWaitsForHandlers ==
    mpc = "returned" =>
        /\ \A i \in Conns : handler[i] = "none"
        /\ shutdown_complete_tx = 0

\* The shutdown future completed while two handlers or more were inside
\* Handler::run, and server::run has returned.
C10_Witness ==
    /\ mpc = "returned"
    /\ IsSome(active_at_trigger)
    /\ Unwrap(active_at_trigger) >= 2
    /\ lpc = "stopped"
    /\ backoff = 1

(***************************************************************************)
(* Properties of the handlers.                                             *)
(***************************************************************************)
\* C11: once the shutdown future has completed, every handler that is inside
\* Handler::run, waiting for a frame or inside the subscribe loop, leaves it
\* and its Handler is dropped, and server::run returns; and from then on no
\* handler is built.
C11_ShutdownCompletes ==
    /\ (mpc # "select") ~> (mpc = "returned" /\ \A i \in Conns : handler[i] = "none")
    /\ [][mpc # "select" =>
              \A i \in Conns : handler[i] # "run" => handler'[i] # "run"]_vars

\* After the trigger, one handler has left the subscribe loop on the shutdown
\* signal while another has left its wait for a frame on it.
C11_Witness ==
    /\ mpc = "recv"
    /\ Unwrap(active_at_trigger) = 2
    /\ \E i, j \in Conns :
          /\ handler[i] = "returned" /\ hshutdown[i] /\ out[i] # << >>
          /\ handler[j] = "returned" /\ hshutdown[j] /\ nread[j] = 0

\* C12: the step in which a handler observes shutdown makes Handler::run
\* return Ok with nothing read, nothing written and the store untouched, from
\* the wait for a frame as from the subscribe loop; and a handler that has
\* observed shutdown is never again inside Handler::run, where frames are read
\* and applied.
C12_ShutdownStopsHandler ==
    [][\A i \in Conns :
          /\ (~hshutdown[i] /\ hshutdown'[i]) =>
                /\ handler'[i] = "returned"
                /\ result'[i] = "ok"
                /\ out'[i] = out[i]
                /\ nread'[i] = nread[i]
                /\ UNCHANGED << entries, expirations, next_id >>
          /\ hshutdown'[i] => handler'[i] = "returned" /\ cmd'[i] = None]_vars

\* One handler has observed shutdown inside the subscribe loop, after its
\* acknowledgements, and another while it waited for its second frame.
C12_Witness ==
    \E i, j \in Conns :
       /\ hshutdown[i] /\ nread[i] = 1 /\ Len(out[i]) = 2
       /\ out[i][1] = make_subscribe_frame("c1", 1)
       /\ hshutdown[j] /\ nread[j] = 1 /\ Len(out[j]) = 1
       /\ out[j][1].t # "Array"

\* The response that Command::apply writes for the command c.
Answers(c, frame) ==
    CASE c.name = "get" -> frame.t \in {"Bulk", "Null"}
      [] c.name = "set" -> frame \in {Null, Simple("OK")}
      [] c.name = "unknown" -> frame.t = "Error"
      [] OTHER -> FALSE

\* C13: on a connection that is not in subscribe state, a frame is read only
\* when every request read before has its response on the connection; while
\* a command is applied nothing is read, and what is written is the one
\* response of that command, appended after the earlier responses.
C13_Serialized ==
    [][\A i \in Conns :
          /\ (cpc[i] = "select" /\ nread'[i] = nread[i] + 1) =>
                Len(out[i]) = nread[i]
          /\ cpc[i] \in {"apply", "set"} =>
                /\ Len(out[i]) = nread[i] - 1
                /\ nread'[i] = nread[i] \/ handler'[i] = "fields"
                /\ \/ out'[i] = out[i]
                   \/ /\ Len(out'[i]) = nread[i]
                      /\ SubSeq(out'[i], 1, Len(out[i])) = out[i]
                      /\ Answers(Cmd(i), out'[i][nread[i]])
                      /\ cpc'[i] \in {"select", "done"}
                   \/ handler'[i] = "fields"
          /\ (cpc'[i] = "select" /\ handler'[i] = "run") =>
                Len(out'[i]) = nread'[i]]_vars

\* A connection has the responses of its SET and of its GET, in that order,
\* and waits for its third request.
C13_Witness ==
    \E i \in Conns :
       /\ handler[i] = "run"
       /\ cpc[i] = "select"
       /\ nread[i] = 2
       /\ out[i] = << Simple("OK"), Bulk("v1") >>

\* C14: when Set::apply finds NX with the key present or XX with the key
\* absent, it responds Null and leaves entries, expirations and next_id as
\* they are; in every other case the SET ends with the entry stored with the
\* computed expiry and the response Simple("OK").
C14_SetResponds ==
    [][\A i \in Conns :
          /\ (/\ handler[i] = "run" /\ cpc[i] = "apply" /\ Cmd(i).name = "set"
              /\ Refuses(Cmd(i).options, Cmd(i).key \in DOMAIN entries)
              /\ cpc'[i] # "apply") =>
                /\ out'[i] = Append(out[i], Null)
                /\ UNCHANGED << entries, expirations, next_id >>
          /\ (/\ handler[i] = "run" /\ cpc[i] = "apply" /\ Cmd(i).name = "set"
              /\ ~Refuses(Cmd(i).options, Cmd(i).key \in DOMAIN entries)
              /\ cpc'[i] # "apply") =>
                /\ cpc'[i] = "set"
                /\ UNCHANGED << out, entries, expirations, next_id >>
          /\ (handler[i] = "run" /\ cpc[i] = "set" /\ cpc'[i] # "set") =>
                /\ out'[i] = Append(out[i], Simple("OK"))
                /\ Cmd(i).key \in DOMAIN entries'
                /\ entries'[Cmd(i).key].data = Cmd(i).value
                /\ entries'[Cmd(i).key].expires_at =
                       (IF IsSome(Cmd(i).options.expire)
                        THEN Some(now + Unwrap(Cmd(i).options.expire))
                        ELSE None)]_vars

\* Handler i reads the frame in this step, at top level or inside the
\* subscribe loop.
Reads(i, frame) ==
    /\ handler[i] = "run"
    /\ nread'[i] = nread[i] + 1
    /\ request'[i] = Some(frame)

\* The frame is fatal to handler i in this step: no command comes out of it,
\* Handler::run returns the error, nothing is written and the store is as it
\* was.
Fatal(i) ==
    /\ cmd'[i] = None
    /\ handler'[i] = "returned"
    /\ result'[i] = "err"
    /\ out'[i] = out[i]
    /\ UNCHANGED << entries, expirations, next_id >>

\* A SET frame that has both NX and XX among the tokens after its value.
CarriesBoth(frame) ==
    /\ frame.t = "Array"
    /\ Len(frame.a) >= 5
    /\ to_lowercase(frame.a[1].s) = "set"
    /\ \E m, n \in 4..Len(frame.a) :
          /\ to_uppercase(frame.a[m].s) = "NX"
          /\ to_uppercase(frame.a[n].s) = "XX"

\* C15: a SET frame with both NX and XX gives no command, in Handler::run as
\* in the subscribe loop: the handler returns an error in the step that reads
\* it, with no response written and the store not mutated.
C15_NxAndXxRejected ==
    [][\A i \in Conns :
          (/\ handler[i] = "run"
           /\ nread'[i] = nread[i] + 1
           /\ IsSome(request'[i])
           /\ CarriesBoth(Unwrap(request'[i]))) => Fatal(i)]_vars

\* A handler has returned an error on SET k1 v4 NX XX, after an earlier SET
\* on another connection has stored k1.
C15_Witness ==
    \E i \in Conns :
       /\ handler[i] = "returned"
       /\ result[i] = "err"
       /\ request[i] = Some(Req(<< "SET", "k1", "v4", "NX", "XX" >>))
       /\ out[i] = << >>
       /\ "k1" \in DOMAIN entries

\* SET k v EX n NX XX: two option tokens and a third one.
ThreeOptions == Req(<< "SET", "k1", "v6", "EX", "1", "NX", "XX" >>)

\* C16 as stated: the handler that reads SET k v EX n NX XX goes on with the
\* command SET k v EX n NX.
C16_ExtraTokenDropped ==
    [][\A i \in Conns :
          Reads(i, ThreeOptions) =>
              /\ handler'[i] = "run"
              /\ cmd'[i] = Some([name |-> "set", key |-> "k1", value |-> "v6",
                                 options |-> [expire |-> Some(from_secs(1)),
                                              nx |-> TRUE, xx |-> FALSE]])]_vars

\* C16, amended: Set::parse_frames reads two option tokens of
\* SET k v EX n NX XX and leaves the third, XX, unread; Command::from_frame
\* then fails at parse.finish(), and the frame is fatal to the handler that
\* reads it.
C16_ExtraTokenRejected ==
    /\ Set_parse_frames(Tail(ThreeOptions.a)).ok
    /\ Set_parse_frames(Tail(ThreeOptions.a)).parts = << Bulk("XX") >>
    /\ Set_parse_frames(Tail(ThreeOptions.a)).cmd.options =
           [expire |-> Some(from_secs(1)), nx |-> TRUE, xx |-> FALSE]
    /\ [][\A i \in Conns : Reads(i, ThreeOptions) => Fatal(i)]_vars

\* A handler has returned an error on SET k1 v6 EX 1 NX XX as its first
\* frame.
C16_Witness ==
    \E i \in Conns :
       /\ handler[i] = "returned"
       /\ result[i] = "err"
       /\ request[i] = Some(ThreeOptions)
       /\ nread[i] = 1

\* Frames whose command name, PING, is not in the command table.
Pings == { Req(<< "PiNg" >>), Req(<< "PING", "k1" >>) }

\* C17: the handler that applies the command of a frame whose name is not in
\* the command table writes the Error frame that names the command in lower
\* case, leaves the store as it is and is back at its read, in Handler::run
\* as in the subscribe loop.
C17_UnknownAnswered ==
    [][\A i \in Conns :
          /\ (/\ handler[i] = "run" /\ cpc[i] = "apply"
              /\ IsSome(request[i]) /\ Unwrap(request[i]) \in Pings
              /\ cpc'[i] # "apply") =>
                /\ Cmd(i).name = "unknown"
                /\ out'[i] = Append(out[i], Error("ERR unknown command 'ping'"))
                /\ handler'[i] = "run" /\ cpc'[i] = "select"
                /\ UNCHANGED << entries, expirations, next_id >>
          /\ (\E f \in Pings : Reads(i, f) /\ cpc[i] = "sub_select") =>
                /\ out'[i] = Append(out[i], Error("ERR unknown command 'ping'"))
                /\ handler'[i] = "run" /\ cpc'[i] = "sub_select"
                /\ subscriptions'[i] = subscriptions[i]
                /\ UNCHANGED << entries, expirations, next_id >>
          /\ (\E f \in Pings : Reads(i, f) /\ cpc[i] = "select") =>
                handler'[i] = "run" /\ cpc'[i] = "apply"]_vars

\* A connection was answered the error for PiNg and then Null for its GET.
C17_Witness ==
    \E i \in Conns :
       /\ handler[i] = "run"
       /\ cpc[i] = "select"
       /\ nread[i] = 2
       /\ out[i] = << Error("ERR unknown command 'ping'"), Null >>

\* C18: the handler that applies an UNSUBSCRIBE read by Handler::run returns
\* an error in that step, writes nothing and leaves the store as it is; its
\* Handler is dropped next.
C18_TopLevelUnsubscribe ==
    [][\A i \in Conns :
          /\ (/\ handler[i] = "run" /\ cpc[i] = "select"
              /\ \E f \in {Req(<< "UNSUBSCRIBE" >>), Req(<< "UNSUBSCRIBE", "c1" >>)} :
                    Reads(i, f)) =>
                /\ cpc'[i] = "apply"
                /\ Unwrap(cmd'[i]).name = "unsubscribe"
                /\ out'[i] = out[i]
          /\ (/\ handler[i] = "run" /\ cpc[i] = "apply"
              /\ Cmd(i).name = "unsubscribe"
              /\ cpc'[i] # "apply") =>
                /\ Fatal(i)
                /\ request'[i] = request[i]]_vars

\* A connection got the response of its GET and then sent UNSUBSCRIBE c1:
\* its handler has returned the error with no second response.
C18_Witness ==
    \E i \in Conns :
       /\ handler[i] = "returned"
       /\ result[i] = "err"
       /\ request[i] = Some(Req(<< "UNSUBSCRIBE", "c1" >>))
       /\ nread[i] = 2
       /\ Len(out[i]) = 1

\* Frames that are no command: not an array, an empty array, a missing key or
\* value, a trailing element, an element of the wrong type or that is not
\* UTF-8, an unknown SET option, an expiry without its number, a SUBSCRIBE
\* without a channel.
ProtocolErrors ==
    { Simple("GET"),
      Array(<< >>),
      Req(<< "GET" >>),
      Req(<< "get", "k1", "k2" >>),
      Array(<< Bulk("GET"), Integer(1) >>),
      Array(<< Bulk("GET"), Bulk("\\xff") >>),
      Req(<< "SET", "k1" >>),
      Req(<< "SET", "k1", "v7", "FOO" >>),
      Req(<< "SET", "k1", "v8", "EX" >>),
      Req(<< "SUBSCRIBE" >>) }

\* C19: the handler that reads a frame that is no command, in Handler::run
\* or in the subscribe loop, returns an error in that step: no command is
\* applied, nothing is written and the store is as it was.
C19_ProtocolErrorFatal ==
    [][\A i \in Conns :
          (/\ handler[i] = "run"
           /\ nread'[i] = nread[i] + 1
           /\ request'[i] \in {Some(f) : f \in ProtocolErrors}) => Fatal(i)]_vars

\* A handler has returned an error on GET k1 k2 while k1 is stored.
C19_Witness ==
    \E i \in Conns :
       /\ handler[i] = "returned"
       /\ result[i] = "err"
       /\ request[i] = Some(Req(<< "get", "k1", "k2" >>))
       /\ out[i] = << >>
       /\ "k1" \in DOMAIN entries

\* The step is one of handler i.
Moves(i) ==
    << handler[i], cpc[i], cmd[i], out[i], nread[i], channels[i],
       subscriptions[i] >>' #
    << handler[i], cpc[i], cmd[i], out[i], nread[i], channels[i],
       subscriptions[i] >>

\* The channels in the subscriber set of a connection.
Subscribed(i) == {subscriptions[i][n][1] : n \in 1..Len(subscriptions[i])}

\* SUBSCRIBE frames and the channels they list.
Subscribes ==
    { << Req(<< "SUBSCRIBE", "c1", "c2" >>), << "c1", "c2" >> >>,
      << Req(<< "subscribe", "c2", "c2" >>), << "c2", "c2" >> >> }

\* C20: the channels of a SUBSCRIBE, applied by Command::apply or read inside
\* the subscribe loop, become the pending channels in the order listed; each
\* step of the loop on a pending channel takes the first one, gives it a
\* sender in the store, puts it into the subscriber set of the connection
\* and appends Array["subscribe", channel, count] with count the size of the
\* set after the insertion; and the loop reads a frame only when no channel
\* is pending.
C20_SubscribeAcknowledged ==
    [][\A i \in Conns :
          /\ \A p \in Subscribes :
                /\ (/\ handler[i] = "run" /\ cpc[i] = "apply"
                    /\ request[i] = Some(p[1]) /\ Moves(i)) =>
                      /\ channels'[i] = p[2]
                      /\ subscriptions'[i] = << >>
                      /\ cpc'[i] = "sub_drain"
                      /\ out'[i] = out[i]
                /\ (Reads(i, p[1]) /\ cpc[i] = "sub_select") =>
                      /\ channels'[i] = p[2]
                      /\ subscriptions'[i] = subscriptions[i]
                      /\ cpc'[i] = "sub_drain"
                      /\ out'[i] = out[i]
          /\ (handler[i] = "run" /\ cpc[i] = "sub_drain") => channels[i] # << >>
          /\ (handler[i] = "run" /\ cpc[i] = "sub_drain" /\ Moves(i)) =>
                /\ handler'[i] = "run"
                /\ nread'[i] = nread[i]
                /\ channels'[i] = Tail(channels[i])
                /\ Head(channels[i]) \in DOMAIN pub_sub'
                /\ Subscribed(i)' = Subscribed(i) \cup {Head(channels[i])}
                /\ Len(subscriptions'[i]) = Cardinality(Subscribed(i)')
                /\ out'[i] = Append(out[i],
                       Array(<< Bulk("subscribe"), Bulk(Head(channels[i])),
                                Integer(Cardinality(Subscribed(i)')) >>))
                /\ cpc'[i] = (IF channels'[i] = << >> THEN "sub_select"
                                                    ELSE "sub_drain")
          /\ (handler'[i] = "run" /\ cpc'[i] = "sub_select") =>
                channels'[i] = << >>]_vars

\* A connection sent SUBSCRIBE c1 c2 and then, inside the loop, subscribe c2
\* c2: it has the four acknowledgements and waits in the select!.
C20_Witness ==
    \E i \in Conns :
       /\ handler[i] = "run"
       /\ cpc[i] = "sub_select"
       /\ nread[i] = 2
       /\ keys(subscriptions[i]) = << "c1", "c2" >>
       /\ out[i] = << make_subscribe_frame("c1", 1), make_subscribe_frame("c2", 2),
                      make_subscribe_frame("c2", 2), make_subscribe_frame("c2", 2) >>


(***************************************************************************)
(* Properties of Listener::accept (server.rs:148-169).                     *)
(***************************************************************************)
\* The sleeps of one call of accept whose every try fails, in seconds.
Backoffs == << 1, 2, 4, 8, 16, 32, 64 >>

IsPrefix(s, t) == Len(s) <= Len(t) /\ \A n \in 1..Len(s) : s[n] = t[n]

\* The try of accept that is under way: one more than the sleeps so far.
Try == Len(slept) + 1

\* C28: the sleeps of one call of accept are 1, 2, 4, 8, 16, 32 and 64
\* seconds, in this order and none longer; an error of a try sleeps the next
\* of them, and the error of the try that follows the 64-second sleep makes
\* accept return it, after which the listener never accepts again; a
\* successful accept leaves the backoff at 1 second with no sleep behind it.
C28_AcceptBackoff ==
    /\ [](/\ IsPrefix(slept, Backoffs)
          /\ lpc = "sleep" => (slept # << >> /\ slept[Len(slept)] = backoff))
    /\ [][/\ (lpc = "accept" /\ lpc' = "sleep") =>
                /\ Len(slept) < Len(Backoffs)
                /\ slept' = Append(slept, Backoffs[Len(slept) + 1])
          /\ (lpc = "accept" /\ lpc' = "failed") => slept = Backoffs
          /\ (lpc = "accept" /\ slept = Backoffs) => lpc' # "sleep"
          /\ (lpc = "accept" /\ lpc' = "acquire") =>
                (backoff' = 1 /\ slept' = << >>)
          /\ lpc = "failed" => lpc' = "failed"]_vars

\* accept has returned the error of the try after the 64-second sleep, in a
\* server that had accepted a connection before.
C28_Witness ==
    /\ lpc = "failed"
    /\ slept = Backoffs
    /\ \E i \in Conns : handler[i] = "run"

ReadNext ==
    \/ \E stream \in Streams : Connection_new(stream)
    \/ ParseFrame
    \/ \E n \in 1..Len(wire) : ReadBuf(n)
    \/ ReadEof

ReadSpec == Init /\ [][ReadNext]_vars

(***************************************************************************)
(* Properties of Connection::read_frame.                                   *)
(***************************************************************************)
\* The buffer starts with the whole of frame f.
StartsWith(buf, f) == IsPrefix(Encode(f), buf)

\* The buffer holds no whole frame: it is empty or the beginning of one.
Partial(buf) ==
    /\ \A f \in WireFrames : ~StartsWith(buf, f)
    /\ \E f \in WireFrames : IsPrefix(buf, Encode(f))

\* The result a call of read_frame returns in this step, if it does.
Returns(res) == returned' = Append(returned, res)

ResetByPeer == [k |-> "Err", msg |-> "connection reset by peer"]

\* C30: read_frame asks the socket for bytes only while its buffer holds no
\* whole frame. It returns None exactly when the socket reports the end of
\* the stream while the buffer is empty, and the error "connection reset by
\* peer" exactly when the end comes while the buffer holds a part of a
\* frame; neither touches the buffer. While the socket has bytes it goes on
\* reading. And whenever the buffer starts with a whole frame, read_frame
\* returns that frame and removes its bytes and no other, so what follows
\* it stays in the buffer.
C30_ReadFrame ==
    /\ [](rfpc = "read" => Partial(buffer))
    /\ [][/\ Returns([k |-> "None"]) <=>
                (rfpc = "read" /\ wire = << >> /\ buffer = << >> /\ rfpc' = "done")
          /\ Returns(ResetByPeer) <=>
                (rfpc = "read" /\ wire = << >> /\ buffer # << >> /\ rfpc' = "done")
          /\ (rfpc = "read" /\ rfpc' = "done") => buffer' = buffer
          /\ (rfpc = "read" /\ wire # << >>) => returned' = returned
          /\ \A f \in WireFrames :
                (rfpc = "parse" /\ StartsWith(buffer, f)) =>
                    /\ Returns([k |-> "Frame", frame |-> f])
                    /\ buffer' = SubSeq(buffer, Len(Encode(f)) + 1, Len(buffer))
                    /\ Encode(f) \o buffer' = buffer
          /\ returned' # returned =>
                \/ Returns([k |-> "None"])
                \/ Returns(ResetByPeer)
                \/ \E f \in WireFrames :
                      StartsWith(buffer, f) /\ Returns([k |-> "Frame", frame |-> f])
         ]_vars

\* A peer sent a bulk and an array in one piece and closed the socket inside
\* the array: the bulk was returned while bytes of the array were buffered
\* behind it, and the next call returned the error.
C30_Witness ==
    /\ rfpc = "done"
    /\ returned = << [k |-> "Frame", frame |-> Bulk(<< CR, LF >>)], ResetByPeer >>
    /\ wire = << >>
    /\ buffer = << "*", "2", CR, LF, "$", "1", CR, LF, "a" >>

(***************************************************************************)
(* Properties of the subscribe loop.                                       *)
(***************************************************************************)
\* C21: the handler that reads UNSUBSCRIBE with no channel inside the
\* subscribe loop removes every entry of its subscriber set: behind what it
\* had written it writes one Array["unsubscribe", channel, count] for each
\* channel of the set, in the order of the entries, the count of the k-th
\* of n being n - k, the size of the set after that removal, so the last
\* count is 0; the set is empty afterwards and the loop goes on.
C21_UnsubscribeAll ==
    /\ [](\A i \in Conns :
             Cardinality(Subscribed(i)) = Len(subscriptions[i]))
    /\ [][\A i \in Conns :
             (Reads(i, Req(<< "UNSUBSCRIBE" >>)) /\ cpc[i] = "sub_select") =>
                 /\ subscriptions'[i] = << >>
                 /\ Len(out'[i]) = Len(out[i]) + Len(subscriptions[i])
                 /\ SubSeq(out'[i], 1, Len(out[i])) = out[i]
                 /\ \A k \in 1..Len(subscriptions[i]) :
                       out'[i][Len(out[i]) + k] =
                           Array(<< Bulk("unsubscribe"),
                                    Bulk(subscriptions[i][k][1]),
                                    Integer(Len(subscriptions[i]) - k) >>)
                 /\ handler'[i] = "run"
                 /\ cpc'[i] = "sub_select"]_vars

\* A connection subscribed to c1 and c2 and then sent UNSUBSCRIBE alone: it
\* has the acknowledgements of both removals, the second with count 0, and
\* waits in the select! with an empty subscriber set.
C21_Witness ==
    \E i \in Conns :
       /\ handler[i] = "run"
       /\ cpc[i] = "sub_select"
       /\ subscriptions[i] = << >>
       /\ request[i] = Some(Req(<< "UNSUBSCRIBE" >>))
       /\ out[i] = << make_subscribe_frame("c1", 1), make_subscribe_frame("c2", 2),
                      make_unsubscribe_frame("c1", 1),
                      make_unsubscribe_frame("c2", 0) >>

(***************************************************************************)
(* Publishing and the delivery of messages.                                *)
(***************************************************************************)

\* The messages sent on a channel; none when the channel has no sender.
Sent(c) == IF c \in DOMAIN pub_sub THEN pub_sub[c] ELSE << >>

\* The entry that connection i holds for channel c in its subscriber set,
\* and the number of messages of the channel its receiver is past.
EntryOf(i, c) ==
    CHOOSE n \in 1..Len(subscriptions[i]) : subscriptions[i][n][1] = c
Position(i, c) == subscriptions[i][EntryOf(i, c)][2]

\* Handler i is inside the loop of Subscribe::apply.
InSubscribeLoop(i) ==
    /\ handler[i] = "run"
    /\ cpc[i] \in {"sub_drain", "sub_select"}

\* Handler j applies a PUBLISH on channel c in this step.
Publishes(j, c) ==
    /\ handler[j] = "run"
    /\ cpc[j] = "apply"
    /\ Cmd(j).name = "publish"
    /\ Cmd(j).channel = c
    /\ Moves(j)

\* C25: a PUBLISH on a channel that has no sender, or that no connection
\* holds a receiver of, answers Integer(0): the message is not kept for
\* anyone, and no other connection is written to and no subscriber set
\* changes in the step.
C25_PublishToNobody ==
    [][\A j \in Conns, c \in Channels :
         (/\ Publishes(j, c)
          /\ \/ c \notin DOMAIN pub_sub
             \/ \A i \in Conns : c \notin Subscribed(i)) =>
             /\ out'[j] = Append(out[j], Integer(0))
             /\ pub_sub' = pub_sub
             /\ subscriptions' = subscriptions
             /\ \A i \in Conns \ {j} : out'[i] = out[i]
             /\ cpc'[j] = "select"]_vars

\* A PUBLISH on c1 was answered with 0 on a channel that has a sender (a
\* connection subscribed to it earlier) and no receiver left, and it left
\* nothing behind for a later subscriber.
C25_Witness ==
    \E j \in Conns :
       /\ handler[j] = "run"
       /\ cpc[j] = "select"
       /\ request[j] = Some(Req(<< "PUBLISH", "c1", "m1" >>))
       /\ out[j] = << Integer(0) >>
       /\ "c1" \in DOMAIN pub_sub
       /\ pub_sub["c1"] = << >>
       /\ \A i \in Conns : subscriptions[i] = << >>

\* Connection i holds a receiver of c that is behind by more than the buffer
\* of the channel: the oldest of its unread messages are gone.
Lagging(i, c) ==
    /\ c \in Subscribed(i)
    /\ Len(Sent(c)) - Position(i, c) > Capacity

\* Handler i, in its select!, takes what the receiver of c has for it in
\* this step.
Receives(i, c) ==
    /\ handler[i] = "run"
    /\ cpc[i] = "sub_select"
    /\ nread'[i] = nread[i]
    /\ handler'[i] = "run"
    /\ c \in Subscribed(i)
    /\ \/ c \notin Subscribed(i)'
       \/ Position(i, c)' # Position(i, c)

\* C26: a handler that has a PUBLISH at hand can always apply it, however
\* many messages the receivers of the channel have left unread; the step
\* appends the message to those sent on the channel, answers with the number
\* of connections subscribed to it and touches no subscriber set. A receiver
\* that is behind by more than Capacity messages stays in the set at its
\* next receive, skips the oldest messages and hands out the oldest one
\* still kept, as one message frame.
C26_PublisherNeverBlocked ==
    /\ [](\A j \in Conns :
             (handler[j] = "run" /\ cpc[j] = "apply" /\ Cmd(j).name = "publish")
                 => ENABLED ApplyPublish(j))
    /\ [][\A j \in Conns, c \in Channels :
             (Publishes(j, c) /\ \E i \in Conns : c \in Subscribed(i)) =>
                 /\ out'[j] = Append(out[j],
                        Integer(Cardinality({i \in Conns : c \in Subscribed(i)})))
                 /\ Sent(c)' = Append(Sent(c), Cmd(j).message)
                 /\ subscriptions' = subscriptions
                 /\ cpc'[j] = "select"]_vars
    /\ [][\A i \in Conns, c \in Channels :
             (Lagging(i, c) /\ Receives(i, c)) =>
                 /\ c \in Subscribed(i)'
                 /\ Position(i, c)' = Len(Sent(c)) - Capacity + 1
                 /\ out'[i] = Append(out[i],
                        Array(<< Bulk("message"), Bulk(c),
                                 Bulk(Sent(c)[Len(Sent(c)) - Capacity + 1]) >>))
                 /\ cpc'[i] = "sub_select"]_vars

\* A publisher has the answers to two PUBLISH on c1 while the one subscriber
\* of c1 has consumed nothing and is behind by more than the buffer.
C26_Witness ==
    \E i, j \in Conns :
       /\ handler[j] = "run"
       /\ cpc[j] = "select"
       /\ out[j] = << Integer(1), Integer(1) >>
       /\ handler[i] = "run"
       /\ cpc[i] = "sub_select"
       /\ out[i] = << make_subscribe_frame("c1", 1) >>
       /\ Lagging(i, "c1")
       /\ Position(i, "c1") = 0
       /\ Sent("c1") = << "m1", "m2" >>

\* The frame is an UNSUBSCRIBE that names channel c, or names no channel.
Unsubscribes(frame, c) ==
    /\ from_frame(frame).ok
    /\ from_frame(frame).cmd.name = "unsubscribe"
    /\ \/ from_frame(frame).cmd.channels = << >>
       \/ \E k \in 1..Len(from_frame(frame).cmd.channels) :
             from_frame(frame).cmd.channels[k] = c

RECURSIVE MessagesOf(_, _)
MessagesOf(fs, c) ==
    IF fs = << >> THEN << >>
    ELSE IF /\ Head(fs).t = "Array"
            /\ Len(Head(fs).a) = 3
            /\ Head(fs).a[1] = Bulk("message")
            /\ Head(fs).a[2] = Bulk(c)
    THEN << Head(fs).a[3].s >> \o MessagesOf(Tail(fs), c)
    ELSE MessagesOf(Tail(fs), c)

\* s is t with some of its elements left out.
RECURSIVE IsSubsequence(_, _)
IsSubsequence(s, t) ==
    IF s = << >> THEN TRUE
    ELSE IF t = << >> THEN FALSE
    ELSE IF Head(s) = Head(t) THEN IsSubsequence(Tail(s), Tail(t))
    ELSE IsSubsequence(s, Tail(t))

Pending(i, c) ==
    /\ handler[i] = "run"
    /\ c \in Subscribed(i)
    /\ Position(i, c) < Len(Sent(c))

\* Handler i subscribes to the pending channel c in this step.
SubscribesTo(i, c) ==
    /\ handler[i] = "run"
    /\ cpc[i] = "sub_drain"
    /\ channels[i] # << >>
    /\ Head(channels[i]) = c
    /\ Moves(i)

StoreCommands ==
    { << Req(<< "GET", "k1" >>), "get" >>,
      << Req(<< "SeT", "k1", "v1" >>), "set" >>,
      << Req(<< "PUBLISH", "c1", "m1" >>), "publish" >>  }

\* C22: a well-formed GET, SET or PUBLISH read inside the subscribe loop is
\* answered with Error "ERR unknown command '<name>'" and nothing else: the
\* entries of the store, the messages of the channels and the subscriber
\* sets are as before, no other connection is written to, and the handler
\* is back in the select! of the loop. A connection leaves the subscribe
\* loop, whatever its subscriber set, only when its handler returns: on the
\* shutdown signal, when the peer has closed the socket, or with an error;
\* a frame that parses to a command never ends the loop.
C22_SubscribeState ==
    /\ [][\A i \in Conns, fc \in StoreCommands :
             (Reads(i, fc[1]) /\ cpc[i] = "sub_select") =>
                 /\ out'[i] = Append(out[i],
                        Error("ERR unknown command '" \o fc[2] \o "'"))
                 /\ \A j \in Conns \ {i} : out'[j] = out[j]
                 /\ UNCHANGED << entries, expirations, next_id, written, sets >>
                 /\ pub_sub' = pub_sub
                 /\ subscriptions' = subscriptions
                 /\ handler'[i] = "run"
                 /\ cpc'[i] = "sub_select"]_vars
    /\ [][\A i \in Conns :
             (InSubscribeLoop(i) /\ ~InSubscribeLoop(i)') =>
                 /\ handler'[i] = "returned"
                 /\ \/ result'[i] = "ok" /\ hshutdown'[i] /\ ~notify_shutdown
                    \/ result'[i] = "ok" /\ nread'[i] = nread[i] /\ out'[i] = out[i]
                    \/ result'[i] = "err"
                 /\ \A f \in SubscribeStateRequests :
                       Reads(i, f) => ~from_frame(f).ok]_vars

\* A connection subscribed to c1, unsubscribed from everything and then
\* sent GET k1: it got the Unknown error and waits in the select! of the
\* loop with an empty subscriber set.
C22_Witness ==
    \E i \in Conns :
       /\ handler[i] = "run"
       /\ cpc[i] = "sub_select"
       /\ subscriptions[i] = << >>
       /\ request[i] = Some(Req(<< "GET", "k1" >>))
       /\ out[i] = << make_subscribe_frame("c1", 1),
                      make_unsubscribe_frame("c1", 0),
                      Error("ERR unknown command 'get'") >>

(***************************************************************************)
(* The codec alone: write_frame (connection.rs:93-167) on one side,        *)
(* Frame::check and Frame::parse under parse_frame on the other, and byte  *)
(* streams that no write_frame produced.                                   *)
(***************************************************************************)
\* Payloads of up to two bytes, "\r" and "\n" among them.
Payloads ==
    {<< >>} \cup {<< b >> : b \in {"a", CR, LF}}
            \cup {<< b, c >> : b \in {"a", CR, LF}, c \in {"a", CR, LF}}

\* The entries of the arrays.
Elements ==
    { Simple(<< "a" >>), Error(<< LF >>), Integer(10), Bulk(<< CR, LF >>), Null }

\* Frames without a nested array.
CodecFrames ==
    {Simple(p) : p \in Payloads} \cup {Error(p) : p \in Payloads}
        \cup {Bulk(p) : p \in Payloads}
        \cup {Integer(n) : n \in {0, 9, 10, U64_MAX}}
        \cup {Null, Array(<< >>)}
        \cup {Array(<< e >>) : e \in Elements}
        \cup {Array(<< e, f >>) : e \in Elements, f \in Elements}

\* The beginning of a bulk with payload p: "$", the length, "\r\n", p.
BulkHead(p) == << "$" >> \o write_decimal(Len(p)) \o p

\* Bulks whose payload is followed by two bytes that are not "\r\n".
BadBulks ==
    {BulkHead(p) \o << b, c >> :
        p \in Payloads,
        b \in {"a", CR, LF}, c \in {"a", CR, LF, "$"}} \
    {BulkHead(p) \o << CR, LF >> : p \in Payloads}

\* Every sequence of up to n of the bytes in B.
RECURSIVE BytesUpTo(_, _)
BytesUpTo(B, n) ==
    IF n = 0 THEN {<< >>}
    ELSE BytesUpTo(B, n - 1) \cup
         {Append(s, b) : s \in BytesUpTo(B, n - 1), b \in B}

\* Longest arbitrary stream.
MaxBytes == 5

\* Arbitrary streams: the bytes of a null bulk, of a simple string, and a
\* byte of no UTF-8 text.
AnyBytes == BytesUpTo({"$", "-", "+", "1", CR, LF, "\\xff"}, MaxBytes)

CodecStreams == {Encode(f) : f \in CodecFrames} \cup BadBulks \cup AnyBytes

CodecNext ==
    \/ rfpc = "none" /\ \E stream \in CodecStreams : Connection_new(stream)
    \/ ParseFrame
    \/ \E n \in 1..Len(wire) : ReadBuf(n)
    \/ ReadEof

CodecSpec == Init /\ [][CodecNext]_vars

\* The result for a frame that check or parse refuses.
InvalidFrame == [k |-> "Err", msg |-> "invalid frame"]

\* C31: when the buffer holds exactly the bytes write_frame writes for a
\* frame without a nested array, whatever its payload, parse_frame (check,
\* then parse) returns that frame and leaves the buffer empty.
C31_RoundTrip ==
    [][\A f \in CodecFrames :
          (rfpc = "parse" /\ returned = << >> /\ buffer = Encode(f)) =>
              /\ Returns([k |-> "Frame", frame |-> f])
              /\ buffer' = << >>]_vars

\* C32: while the buffer holds a proper prefix of the bytes of a frame, the
\* empty one included, Frame::check reports Incomplete.
C32_PrefixIncomplete ==
    \A f \in CodecFrames :
        (/\ rfpc = "parse"
         /\ returned = << >>
         /\ wire # << >>
         /\ buffer \o wire = Encode(f)) =>
            Frame_check(buffer, 0) = Incomplete

\* C33: a buffer that starts with "$", a length L, "\r\n" and L bytes that
\* are followed by two bytes other than "\r\n" is refused as an invalid
\* frame, and nothing is taken from the buffer.
C33_BulkTerminated ==
    [][\A p \in Payloads :
          (/\ rfpc = "parse"
           /\ IsPrefix(BulkHead(p), buffer)
           /\ Len(buffer) >= Len(BulkHead(p)) + 2
           /\ SubSeq(buffer, Len(BulkHead(p)) + 1, Len(BulkHead(p)) + 2)
                  # << CR, LF >>) =>
              /\ Returns(InvalidFrame)
              /\ buffer' = buffer]_vars

\* C34: whenever Frame::check succeeds on the buffer, Frame::parse succeeds
\* on it as well and ends at the position check ended at, so that
\* parse_frame returns a frame and removes exactly the bytes that were
\* checked.
C34_CheckParseAgree ==
    /\ []((rfpc = "parse" /\ Frame_check(buffer, 0).k = "Ok") =>
             /\ Frame_parse(buffer, 0).k = "Ok"
             /\ Frame_parse(buffer, 0).pos = Frame_check(buffer, 0).pos)
    /\ [][(rfpc = "parse" /\ Frame_check(buffer, 0).k = "Ok") =>
             /\ \E f \in {Frame_parse(buffer, 0)} :
                   f.k = "Ok" /\ Returns([k |-> "Frame", frame |-> f.val])
             /\ buffer' = SubSeq(buffer, Frame_check(buffer, 0).pos + 1,
                                 Len(buffer))]_vars

(***************************************************************************)
(* Connections that send SET with NX on one key, whose handlers run on the *)
(* worker threads of the runtime at the same time.                         *)
(***************************************************************************)
NxRequests ==
    { Req(<< "SET", "k1", "v1", "NX" >>),
      Req(<< "SET", "k1", "v2", "NX" >>) }

NxNext ==
    \/ ListenerAcquire
    \/ \E i \in Conns : AcceptOk(i)
    \/ \E i \in Conns : HandlerDrop(i)
    \/ \E i \in Conns : HandlerFields(i)
    \/ \E i \in Conns, f \in NxRequests : nframes < MaxFrames /\ ReadFrame(i, f)
    \/ \E i \in Conns : ReadClosed(i, "ok")
    \/ \E i \in Conns : ApplySet(i)
    \/ \E i \in Conns : ApplySetDb(i)

NxSpec == Init /\ [][NxNext]_vars

\* C35: of the connections that send SET k1 .. NX while k1 is absent, at
\* most one is answered OK, and once k1 is stored its value is not replaced
\* by another SET NX.
C35_NxAtomic ==
    /\ [](\A i, j \in Conns :
             (/\ Simple("OK") \in {out[i][n] : n \in 1..Len(out[i])}
              /\ Simple("OK") \in {out[j][n] : n \in 1..Len(out[j])}) => i = j)
    /\ [][("k1" \in DOMAIN entries) =>
             /\ "k1" \in DOMAIN entries'
             /\ entries'["k1"].data = entries["k1"].data]_vars

(***************************************************************************)
(* The background task and the notifications of Db::set.                   *)
(***************************************************************************)
\* The reaper sleeps, or waits without a timer, while expirations holds a
\* deadline earlier than the one it sleeps until.
Late ==
    /\ ~shutdown
    /\ IsSome(next_expiration(expirations))
    /\ \/ rpc = "wait"
       \/ /\ rpc = "sleep"
          /\ Unwrap(next_expiration(expirations)) < Unwrap(rwhen)
\* A notification is stored in the Notify, or a thread that left the locked
\* part of Db::set is about to store it.
NotificationDue ==
    \/ background_task
    \/ \E h \in Handles : hpc[h] = "set_notify"

\* C36: when Db::set has put into expirations a deadline earlier than the
\* one the reaper sleeps until (or a first one while it waits), a
\* notification is stored or about to be, also when it is issued between the
\* return of the purge and the start of the wait; the reaper then wakes, and
\* the purge it runs arms the sleep with the earliest deadline left.
C36_ReaperRearmed ==
    /\ [](Late => NotificationDue)
    /\ [][(rpc = "purge" /\ rpc' # "purge" /\ ~shutdown) =>
             /\ rwhen' = next_expiration(expirations')
             /\ rpc' = IF IsSome(rwhen') THEN "sleep" ELSE "wait"]_vars
    /\ (Late ~> ~Late)

\* The reaper sleeps until the deadline of one key while another set has
\* added an earlier deadline and its notification is stored.
C36_Witness ==
    /\ rpc = "sleep"
    /\ Late
    /\ background_task
    /\ Cardinality(DOMAIN expirations) = 2

\* C37: a key leaves entries only when the entry stored under it has a
\* deadline at or before now; the value and deadline of the latest set of a
\* key stay in the store at every time before that deadline, whatever
\* earlier deadline the key had; and a purge returns the earliest deadline
\* left in expirations, which is later than now.
C37_PurgeOnlyExpired ==
    /\ [][\A k \in Keys :
             (k \in DOMAIN entries /\ k \notin DOMAIN entries') =>
                 /\ IsSome(entries[k].expires_at)
                 /\ Unwrap(entries[k].expires_at) <= now]_vars
    /\ [](\A k \in Keys :
             (/\ IsSome(written[k])
              /\ IsSome(Latest(k).when)
              /\ now < Unwrap(Latest(k).when)) =>
                 /\ k \in DOMAIN entries
                 /\ entries[k].data = Latest(k).val
                 /\ entries[k].expires_at = Latest(k).when)
    /\ [][(rpc = "purge" /\ rpc' # "purge" /\ IsSome(rwhen')) =>
             /\ rwhen' = next_expiration(expirations')
             /\ Unwrap(rwhen') > now']_vars

\* k1 was set with a deadline that is due and set again with a later one;
\* the reaper has purged since and sleeps until the later deadline.
C37_Witness ==
    /\ sets = 2
    /\ DOMAIN entries = {"k1"}
    /\ entries["k1"].id = 1
    /\ Latest("k1").cleared
    /\ entries["k1"].expires_at = Some(1)
    /\ now = 0
    /\ rpc = "sleep"
    /\ rwhen = Some(1)

(***************************************************************************)
(* server::run with the Db handles of its parts: Listener.db (Db::new, the *)
(* handle 1 of the store), the clone every Handler owns (server.rs:126),   *)
(* and the Arc of the background task. Handler::run is any run that ends.  *)
(***************************************************************************)
\* server.rs:123-138: a socket is accepted and the Handler is built with a
\* clone of the listener's Db and of shutdown_complete_tx.
AcceptDb(i) ==
    /\ mpc = "select"
    /\ lpc = "accept"
    /\ handler[i] = "none"
    /\ \A j \in Conns : j < i => handler[j] # "none"
    /\ hpc[1] = "live"
    /\ handler' = [handler EXCEPT ![i] = "run"]
    /\ strong' = strong + 1
    /\ shutdown_complete_tx' = CloneSender(shutdown_complete_tx)
    /\ lpc' = "acquire"
    /\ backoff' = 1
    /\ slept' = << >>
    /\ UNCHANGED << limit_connections, notify_shutdown, mpc, active_at_trigger >>
    /\ UNCHANGED << entries, expirations, next_id, shutdown, background_task,
                    hpc, rpc, rwhen, now, sets, written >>
    /\ UNCHANGED << connVars, ioVars >>

\* server.rs:39 with db.rs:115-126: the first field of the Handler, db, is
\* dropped: Drop for Db tests the strong count and, on the last handle, sets
\* shutdown and notifies the background task.
HandlerDb(i) ==
    /\ handler[i] = "fields"
    /\ handler' = [handler EXCEPT ![i] = "db_release"]
    /\ IF IsLast(strong)
       THEN shutdown' = TRUE /\ background_task' = TRUE
       ELSE UNCHANGED << shutdown, background_task >>
    /\ UNCHANGED << limit_connections, notify_shutdown, shutdown_complete_tx,
                    lpc, backoff, slept, mpc, active_at_trigger >>
    /\ UNCHANGED << entries, expirations, next_id, strong, hpc, rpc, rwhen,
                    now, sets, written >>
    /\ UNCHANGED << connVars, ioVars >>

\* The Arc inside the Handler's Db is released.
HandlerDbRelease(i) ==
    /\ handler[i] = "db_release"
    /\ strong' = strong - 1
    /\ handler' = [handler EXCEPT ![i] = "sender"]
    /\ UNCHANGED << limit_connections, notify_shutdown, shutdown_complete_tx,
                    lpc, backoff, slept, mpc, active_at_trigger >>
    /\ UNCHANGED << entries, expirations, next_id, shutdown, background_task,
                    hpc, rpc, rwhen, now, sets, written >>
    /\ UNCHANGED << connVars, ioVars >>

\* server.rs:53: the last field of the Handler, _shutdown_complete.
HandlerSender(i) ==
    /\ handler[i] = "sender"
    /\ shutdown_complete_tx' = shutdown_complete_tx - 1
    /\ handler' = [handler EXCEPT ![i] = "none"]
    /\ UNCHANGED << limit_connections, notify_shutdown, lpc, backoff, slept,
                    mpc, active_at_trigger >>
    /\ UNCHANGED << storeVars, connVars, ioVars >>

\* server.rs:108: run returns and what is left of `server` is dropped, its
\* field db first (server.rs:18).
RunDropServer == mpc = "returned" /\ DropCheck(1)

\* db.rs:120-126 for the listener's Db.
RunDropDb == DropShutdown(1) \/ DropNotify(1) \/ DropRelease(1)

\* The background task with no key to expire.
ReaperIdle == ReaperCheck \/ ReaperPurge \/ ReaperNotified

DbServerNext ==
    \/ ListenerAcquire
    \/ \E i \in Conns : AcceptDb(i)
    \/ AcceptErr
    \/ BackoffElapsed
    \/ Trigger
    \/ RunDropNotify
    \/ RunDropTx
    \/ RunRecv
    \/ \E i \in Conns : HandlerExit(i)
    \/ \E i \in Conns : HandlerShutdown(i)
    \/ \E i \in Conns : HandlerDrop(i)
    \/ \E i \in Conns : HandlerDb(i)
    \/ \E i \in Conns : HandlerDbRelease(i)
    \/ \E i \in Conns : HandlerSender(i)
    \/ RunDropServer
    \/ RunDropDb
    \/ ReaperIdle

\* The runtime polls server::run, which goes on to the end of its scope,
\* and the background task.
DbServerSpec ==
    /\ Init
    /\ [][DbServerNext]_vars
    /\ WF_vars(RunDropServer)
    /\ WF_vars(RunDropDb)
    /\ WF_vars(ReaperIdle)

\* The Db handles and the Senders that Handlers own.
HandlerDbs ==
    strong - (IF hpc[1] # "none" THEN 1 ELSE 0) - (IF rpc # "done" THEN 1 ELSE 0)
HandlerSenders ==
    shutdown_complete_tx - (IF mpc \in {"select", "drop_notify", "drop_tx"} THEN 1 ELSE 0)

\* C38: Handlers never own more Db handles than Senders, so when the wait
\* of server::run has resolved the listener's Db is the only handle next to
\* the background task's Arc; no Handler's drop and only the listener's is
\* taken for the last release; and once run has returned, shutdown is set
\* and the background task ends.
C38_ListenerDbIsLast ==
    /\ [](HandlerDbs <= HandlerSenders)
    /\ []((mpc = "returned" /\ hpc[1] = "live") =>
             strong = 2 /\ rpc # "done" /\ ~shutdown)
    /\ [][/\ (hpc[1] = "live" /\ hpc'[1] # "live") => hpc'[1] = "drop_lock"
          /\ (~shutdown /\ shutdown') => hpc[1] = "drop_lock"]_vars
    /\ ((mpc = "returned") ~> (shutdown /\ rpc = "done" /\ strong = 0))

\* Two handlers were inside Handler::run when the shutdown future completed;
\* run has returned, the listener's Db is gone and the background task has
\* ended.
C38_Witness ==
    /\ active_at_trigger = Some(2)
    /\ mpc = "returned"
    /\ hpc[1] = "none"
    /\ shutdown
    /\ rpc = "done"

\* Handler i subscribes in this step to the channel c, which is pending.
SubscribesAgain(i, c) ==
    /\ handler[i] = "run"
    /\ cpc[i] = "sub_drain"
    /\ channels[i] # << >>
    /\ Head(channels[i]) = c
    /\ c \in Subscribed(i)
    /\ channels'[i] = Tail(channels[i])

\* C39: the subscriber set of a connection has no two entries with the same
\* channel name; a subscription to a channel that is in the set leaves the
\* names and the size of the set as they are, puts a new receiver, which is
\* past everything sent so far, in place of the old one, and is acknowledged
\* with that same size; and a connection is sent no more message frames of a
\* channel than messages were published to it.
C39_OneReceiverPerChannel ==
    /\ [](\A i \in Conns : \A m, n \in 1..Len(subscriptions[i]) :
             subscriptions[i][m][1] = subscriptions[i][n][1] => m = n)
    /\ [][\A i \in Conns, c \in Channels :
             SubscribesAgain(i, c) =>
                 /\ Subscribed(i)' = Subscribed(i)
                 /\ Len(subscriptions'[i]) = Len(subscriptions[i])
                 /\ Position(i, c)' = Len(Sent(c))
                 /\ out'[i] = Append(out[i],
                        make_subscribe_frame(c, Len(subscriptions[i])))]_vars
    /\ [](\A i \in Conns, c \in Channels :
             Len(MessagesOf(out[i], c)) <= Len(Sent(c)))

\* A connection subscribed to c1 twice, both times acknowledged with the
\* count 1, and then was sent once the message published to c1.
C39_Witness ==
    \E i \in Conns :
       /\ Len(subscriptions[i]) = 1
       /\ out[i] = << make_subscribe_frame("c1", 1),
                      make_subscribe_frame("c1", 1),
                      make_message_frame("c1", "m1") >>

(***************************************************************************)
(* The client library (client.rs:108-251) as the peer of the first         *)
(* connection the server accepts. What it writes the handler reads in the  *)
(* order written; what the handler writes it reads in the order written.   *)
(***************************************************************************)
ClientConn == 1

\* Calls of the client in one behaviour, and PUBLISH frames of the other
\* clients.
MaxClientCalls == 3
MaxPublishes == 1

\* The channel lists the calls are made with.
SubscribeArgs == { << "c1" >>, << "c1", "c1" >>, << "c1", "c2" >> }
UnsubscribeArgs == { << >>, << "c1" >> }

\* frame.rs:213-221: impl PartialEq<&str> for Frame.
FrameEqStr(frame, str) == frame.t \in {"Simple", "Bulk"} /\ frame.s = str

\* The frame the client reads next, if the server has written it.
HasResponse == cread < Len(out[ClientConn])
Response_ == out[ClientConn][cread + 1]

\* A call returns.
ClientReturns(pos, call) ==
    /\ clpc' = pos
    /\ cok' = call
    /\ cargs' = << >>
    /\ cnum' = 0
    /\ cdone' = 0
ClientFails ==
    /\ clpc' = "err"
    /\ UNCHANGED << subscribed_channels, cargs, cnum, cdone, cok >>

\* client.rs:113-114, 205 and 122-127: Client::subscribe or
\* Subscriber::subscribe calls subscribe_cmd, which writes the SUBSCRIBE
\* frame.
ClientSubscribe(chs) ==
    /\ clpc \in {"new", "idle"}
    /\ Len(cframes) < MaxClientCalls
    /\ cframes' = Append(cframes, Req(<< "subscribe" >> \o chs))
    /\ clpc' = "subscribe_cmd"
    /\ cargs' = chs
    /\ cnum' = Len(chs)
    /\ cdone' = 0
    /\ UNCHANGED << subscribed_channels, cread, cok >>
    /\ UNCHANGED << buffer, wire, rfpc, returned >>
    /\ UNCHANGED << storeVars, serverVars, connVars >>

\* client.rs:129-140: one response per channel, which must be an array
\* that starts with "subscribe" and the channel; after the last one
\* subscribe_cmd returns and the channels are recorded (client.rs:116-119,
\* 207-210). read_response (client.rs:145-160) fails on an Error frame.
ClientSubscribeRead ==
    /\ clpc = "subscribe_cmd"
    /\ HasResponse
    /\ cread' = cread + 1
    /\ IF /\ Response_.t = "Array"
          /\ Len(Response_.a) >= 2
          /\ FrameEqStr(Response_.a[1], "subscribe")
          /\ FrameEqStr(Response_.a[2], cargs[cdone + 1])
       THEN IF cdone + 1 = cnum
            THEN /\ subscribed_channels' = subscribed_channels \o cargs
                 /\ ClientReturns("idle", "subscribe")
            ELSE /\ cdone' = cdone + 1
                 /\ UNCHANGED << clpc, subscribed_channels, cargs, cnum, cok >>
       ELSE ClientFails
    /\ UNCHANGED cframes
    /\ UNCHANGED << buffer, wire, rfpc, returned >>
    /\ UNCHANGED << storeVars, serverVars, connVars >>

\* client.rs:224-228: the number of acknowledgements unsubscribe reads.
NumSubs(chs, subscribed) == IF chs = << >> THEN Len(subscribed) ELSE Len(chs)

\* client.rs:215-230: unsubscribe writes the UNSUBSCRIBE frame; with nothing
\* to read it returns.
ClientUnsubscribe(chs) ==
    /\ clpc = "idle"
    /\ Len(cframes) < MaxClientCalls
    /\ cframes' = Append(cframes, Req(<< "unsubscribe" >> \o chs))
    /\ IF NumSubs(chs, subscribed_channels) = 0
       THEN ClientReturns("idle", "unsubscribe")
       ELSE /\ clpc' = "unsubscribe"
            /\ cargs' = chs
            /\ cnum' = NumSubs(chs, subscribed_channels)
            /\ cdone' = 0
            /\ cok' = cok
    /\ UNCHANGED << subscribed_channels, cread >>
    /\ UNCHANGED << buffer, wire, rfpc, returned >>
    /\ UNCHANGED << storeVars, serverVars, connVars >>

\* client.rs:240: retain(|c| *channel != &c[..]).
retain(subscribed, channel) ==
    SelectSeq(subscribed, LAMBDA c : ~FrameEqStr(channel, c))

\* client.rs:230-250: one response per iteration, which must be an array
\* that starts with "unsubscribe" while a channel is recorded; every
\* recorded channel equal to the one it names is taken out.
ClientUnsubscribeRead ==
    /\ clpc = "unsubscribe"
    /\ HasResponse
    /\ cread' = cread + 1
    /\ IF /\ Response_.t = "Array"
          /\ Len(Response_.a) >= 2
          /\ FrameEqStr(Response_.a[1], "unsubscribe")
          /\ Len(subscribed_channels) # 0
       THEN /\ subscribed_channels' = retain(subscribed_channels, Response_.a[2])
            /\ IF cdone + 1 = cnum
               THEN ClientReturns("idle", "unsubscribe")
               ELSE /\ cdone' = cdone + 1
                    /\ UNCHANGED << clpc, cargs, cnum, cok >>
       ELSE ClientFails
    /\ UNCHANGED cframes
    /\ UNCHANGED << buffer, wire, rfpc, returned >>
    /\ UNCHANGED << storeVars, serverVars, connVars >>

\* client.rs:169-189: next_message reads a frame, which must be an array of
\* "message", the channel and the content.
ClientNextMessage ==
    /\ clpc = "idle"
    /\ HasResponse
    /\ cread' = cread + 1
    /\ IF /\ Response_.t = "Array"
          /\ Len(Response_.a) = 3
          /\ FrameEqStr(Response_.a[1], "message")
       THEN /\ ClientReturns("idle", "next_message")
            /\ UNCHANGED subscribed_channels
       ELSE ClientFails
    /\ UNCHANGED cframes
    /\ UNCHANGED << buffer, wire, rfpc, returned >>
    /\ UNCHANGED << storeVars, serverVars, connVars >>

\* The handler of the client's connection reads the next frame the client
\* has written.
ClientFrameArrives ==
    /\ nread[ClientConn] < Len(cframes)
    /\ \/ ReadFrame(ClientConn, cframes[nread[ClientConn] + 1])
       \/ SubReadFrame(ClientConn, cframes[nread[ClientConn] + 1])

\* The frames of the other clients, which publish.
PublishRequests ==
    { Req(<< "PUBLISH", "c1", "m1" >>) }

ClientNext ==
    \/ ListenerAcquire
    \/ \E i \in Conns : AcceptOk(i)
    \/ \E i \in Conns \ {ClientConn} : HandlerDrop(i)
    \/ \E i \in Conns \ {ClientConn} : HandlerFields(i)
    \/ \E chs \in SubscribeArgs : ClientSubscribe(chs)
    \/ ClientSubscribeRead
    \/ \E chs \in UnsubscribeArgs : ClientUnsubscribe(chs)
    \/ ClientUnsubscribeRead
    \/ ClientNextMessage
    \/ ClientFrameArrives
    \/ \E i \in Conns \ {ClientConn}, f \in PublishRequests :
          nframes - nread[ClientConn] < MaxPublishes /\ ReadFrame(i, f)
    \/ \E i \in Conns \ {ClientConn} : ReadClosed(i, "ok")
    \/ \E i \in Conns : ApplyPublish(i)
    \/ \E i \in Conns : ApplySubscribe(i)
    \/ \E i \in Conns : SubscribeToChannel(i)
    \/ \E i \in Conns, n \in 1..Cardinality(Channels) : SubMessage(i, n)

ClientSpec == Init /\ [][ClientNext]_vars

\* The client is inside unsubscribe, called with no channel.
UnsubscribingAll == clpc = "unsubscribe" /\ cargs = << >>

\* The server has read and answered what the client wrote, and the client
\* has read all of it; no message waits in a receiver of the connection.
Quiet ==
    /\ handler[ClientConn] = "run"
    /\ cpc[ClientConn] = "sub_select"
    /\ nread[ClientConn] = Len(cframes)
    /\ ~HasResponse
    /\ \A c \in Subscribed(ClientConn) : Position(ClientConn, c) = Len(Sent(c))

\* C40: unsubscribe with no channel does not fail; it returns with
\* subscribed_channels empty; and it does not go on waiting once the client
\* has read every acknowledgement the server has sent.
C40_UnsubscribeAll ==
    /\ [][UnsubscribingAll => clpc' # "err"]_vars
    /\ [][(UnsubscribingAll /\ clpc' = "idle") =>
             subscribed_channels' = << >>]_vars
    /\ [](UnsubscribingAll => ~Quiet)

=============================================================================
